---- MODULE Spec2Model ----
(***************************************************************************)
(* Model of the raster pipeline of sentinelapi-trials: cloud masking       *)
(* (src/cloud.py), temporal compositing (src/compositing.py) and the soil  *)
(* indices, bare-soil mask and statistics (src/soil.py).                   *)
(*                                                                         *)
(* An image is a row of NPix pixels laid out along the direction in which  *)
(* cloud shadows are projected.  A band maps each pixel to an integer; a   *)
(* mask maps each pixel to a BOOLEAN (TRUE = the pixel carries data).      *)
(* Earth Engine operations are modelled by what they do to pixel values    *)
(* and masks: updateMask ANDs a mask onto the existing one, a reducer      *)
(* skips masked inputs, Join.saveFirst keeps only the primary elements     *)
(* that have a match.                                                      *)
(*                                                                         *)
(* The histograms and their reports (src/visualization.py), the order and  *)
(* the error handling of the stages of run_pipeline (src/main.py),         *)
(* analyze_fun (src/analysis.py) and analyze_endpoint (src/app.py), and    *)
(* the polling loop of wait_for_all_tasks (src/export.py) each have a      *)
(* specification of their own further down.                                *)
(***************************************************************************)
EXTENDS Integers, Sequences, FiniteSets, TLC

VARIABLES
    qa_image,              \* QA60 band of the image given to mask_s2_clouds_qa
    qa_ret,                \* mask of the image returned by mask_s2_clouds_qa
    s2_collection,         \* Sentinel-2 collection (sequence of scenes)
    cloudless_collection,  \* s2cloudless collection (sequence of probability images)
    cloud_ret,             \* last call into cloud.py and what it returned
    collection,            \* masked stack given to create_composite
    comp_ret,              \* last call into compositing.py and what it returned
    soil_image,            \* image at hand in the soil stage (the composite)
    soil_ret,              \* last call into soil.py or visualization.py and what it returned
    hist_data,             \* histogram dictionary handed to the report functions
    pipe,                  \* one run of run_pipeline or of a request to /analyze
    wait                   \* one call of wait_for_all_tasks and the export tasks

vars == <<qa_image, qa_ret, s2_collection, cloudless_collection, cloud_ret,
          collection, comp_ret, soil_image, soil_ret, hist_data, pipe, wait>>

\* values of the variables of the stages a specification does not exercise
NoHistData == [band |-> "none"]
NoPipe == [entry |-> "none"]
NoWait == [pc |-> "none"]

\* Python's None: for an integer argument and for a string argument
NoneInt == -1
NoneStr == "None"
\* a call that has not been made yet
NoCall == [fn |-> "none"]
\* no image at hand
NoImage == [bands |-> <<>>]

\* ------------------------------------------------------------------------
\* Bounds
\* ------------------------------------------------------------------------
NPix == 2          \* pixels per image row
MaxScenes == 2     \* scenes in the collections given to the join
MaxStack == 3      \* scenes in the stack given to create_composite

Pixels == 1..NPix

\* ------------------------------------------------------------------------
\* config.py
\* ------------------------------------------------------------------------
CLOUD_PROBABILITY_THRESHOLD == 40
COMPOSITE_PERCENTILE == 50
COMPOSITE_METHOD == "median"

\* Python's `x or default`: None and 0 are both falsy.
OrDefault(x, default) == IF x = NoneInt \/ x = 0 THEN default ELSE x

\* ------------------------------------------------------------------------
\* Integer helpers
\* ------------------------------------------------------------------------
RECURSIVE Pow2(_)
Pow2(n) == IF n = 0 THEN 1 ELSE 2 * Pow2(n - 1)

\* Python's 1 << n
ShiftLeft(x, n) == x * Pow2(n)

RECURSIVE BitwiseAnd(_, _)
BitwiseAnd(x, y) ==
    IF x = 0 \/ y = 0 THEN 0
    ELSE ((x % 2) * (y % 2)) + 2 * BitwiseAnd(x \div 2, y \div 2)

RECURSIVE SumSet(_)
SumSet(S) == IF S = {} THEN 0
             ELSE LET x == CHOOSE y \in S : TRUE IN x + SumSet(S \ {x})

\* ee.Image.updateMask: the new mask only removes validity
UpdateMask(old, new) == [p \in Pixels |-> old[p] /\ new[p]]

AllValid == [p \in Pixels |-> TRUE]

\* ------------------------------------------------------------------------
\* mask_s2_clouds_qa  (src/cloud.py:12-37)
\* ------------------------------------------------------------------------
\* QA60 bits that vary in the model: the two flag bits and their neighbours
QABits == {9, 10, 11, 12}
QAValues == {SumSet({Pow2(b) : b \in S}) : S \in SUBSET QABits}

cloud_bit_mask_shifted9 == ShiftLeft(1, 9)
cloud_bit_mask == ShiftLeft(1, 10)
cirrus_bit_mask == ShiftLeft(1, 11)

\* image is [QA60 |-> band, mask |-> mask]
mask_s2_clouds_qa(image) ==
    LET qa == image.QA60
        mask == [p \in Pixels |->
                    (BitwiseAnd(qa[p], cloud_bit_mask) = 0)
                    /\ (BitwiseAnd(qa[p], cirrus_bit_mask) = 0)]
    IN  [image EXCEPT !.mask = UpdateMask(@, mask)]

Call_mask_s2_clouds_qa ==
    /\ qa_ret = NoCall
    /\ qa_ret' = [fn |-> "mask_s2_clouds_qa",
                  value |-> mask_s2_clouds_qa(qa_image)]
    /\ UNCHANGED <<qa_image, s2_collection, cloudless_collection, cloud_ret,
                   collection, comp_ret, soil_image, soil_ret,
                   hist_data, pipe, wait>>

InitQA ==
    /\ qa_image \in {[QA60 |-> qa, mask |-> AllValid] : qa \in [Pixels -> QAValues]}
    /\ qa_ret = NoCall
    /\ s2_collection = <<>>
    /\ cloudless_collection = <<>>
    /\ cloud_ret = NoCall
    /\ collection = <<>>
    /\ comp_ret = NoCall
    /\ soil_image = NoImage
    /\ soil_ret = NoCall
    /\ hist_data = NoHistData
    /\ pipe = NoPipe
    /\ wait = NoWait

NextQA == Call_mask_s2_clouds_qa

SpecQA == InitQA /\ [][NextQA]_vars

\* Bit b of the QA60 value x
QABit(x, b) == (x \div Pow2(b)) % 2

\* C2: mask_s2_clouds_qa marks a pixel valid iff bit 10 (cloud) and bit 11
\* (cirrus) of its QA60 value are both unset, whatever the other bits are.
C2_QAValidIffBothBitsUnset ==
    qa_ret.fn = "mask_s2_clouds_qa" =>
        \A p \in Pixels :
            qa_ret.value.mask[p] <=>
                (QABit(qa_image.QA60[p], 10) = 0 /\ QABit(qa_image.QA60[p], 11) = 0)

\* A clear pixel and a cloud pixel, each with the neighbouring bit 9 set, and
\* the clear one with bit 12 set too.
C2_Witness ==
    /\ qa_ret.fn = "mask_s2_clouds_qa"
    /\ qa_image.QA60[1] = Pow2(9) + Pow2(12)
    /\ qa_ret.value.mask[1]
    /\ qa_image.QA60[2] = Pow2(10) + Pow2(9)
    /\ ~qa_ret.value.mask[2]

\* ------------------------------------------------------------------------
\* Scenes of the cloud-masking stage
\* ------------------------------------------------------------------------
\* A Sentinel-2 scene is [index, SCL, B8, mask]; a s2cloudless image is
\* [index, probability].  index is system:index.
SclVals == {3, 4, 8, 9, 10, 11}
B8Vals == {1499, 1500}
ProbVals == {0, 40, 41}
ThresholdArgs == {NoneInt, 0, 40, 41}

\* ------------------------------------------------------------------------
\* mask_s2_clouds_scl  (src/cloud.py:40-69)
\* ------------------------------------------------------------------------
mask_s2_clouds_scl(image) ==
    LET scl == image.SCL
        mask == [p \in Pixels |->
                    scl[p] # 3 /\ scl[p] # 8 /\ scl[p] # 9 /\ scl[p] # 10]
    IN  [image EXCEPT !.mask = UpdateMask(@, mask)]

\* ------------------------------------------------------------------------
\* add_cloud_probability  (src/cloud.py:72-109)
\* ------------------------------------------------------------------------
\* ee.Join.saveFirst(...).apply with ee.Filter.equals on system:index: an
\* inner join; a primary element is kept iff the secondary collection has a
\* match, and carries the first match.
HasMatch(image, secondary) ==
    \E j \in 1..Len(secondary) : secondary[j].index = image.index

FirstMatch(image, secondary) ==
    LET j == CHOOSE k \in 1..Len(secondary) :
                 /\ secondary[k].index = image.index
                 /\ \A m \in 1..(k - 1) : secondary[m].index # image.index
    IN  secondary[j]

\* the mapped function add_prob_band: image.addBands(cloud_prob)
add_prob_band(image, cloud_prob) ==
    [index |-> image.index, SCL |-> image.SCL, B8 |-> image.B8,
     mask |-> image.mask, probability |-> cloud_prob.probability]

RECURSIVE add_cloud_probability_outer(_, _)
add_cloud_probability_outer(s2, cloudless) ==
    IF s2 = <<>> THEN <<>>
    ELSE LET image == Head(s2)
             rest == add_cloud_probability_outer(Tail(s2), cloudless)
         IN  IF HasMatch(image, cloudless)
             THEN <<add_prob_band(image, FirstMatch(image, cloudless))>> \o rest
             ELSE <<add_prob_band(image, [probability |-> [p \in Pixels |-> 0]])>> \o rest

RECURSIVE add_cloud_probability(_, _)
add_cloud_probability(s2, cloudless) ==
    IF s2 = <<>> THEN <<>>
    ELSE LET image == Head(s2)
             rest == add_cloud_probability(Tail(s2), cloudless)
         IN  IF HasMatch(image, cloudless)
             THEN <<add_prob_band(image, FirstMatch(image, cloudless))>> \o rest
             ELSE rest

\* ------------------------------------------------------------------------
\* mask_s2_clouds_probability  (src/cloud.py:112-136)
\* ------------------------------------------------------------------------
mask_s2_clouds_probability(image, threshold) ==
    LET thresh == OrDefault(threshold, CLOUD_PROBABILITY_THRESHOLD)
        cloud_prob == image.probability
        mask == [p \in Pixels |-> cloud_prob[p] < thresh]
    IN  [image EXCEPT !.mask = UpdateMask(@, mask)]

\* ------------------------------------------------------------------------
\* mask_cloud_shadows  (src/cloud.py:139-196)
\* ------------------------------------------------------------------------
\* defaults of the keyword arguments; nir_dark_threshold (0.15) is held in
\* hundredths
DefaultCloudProbThreshold == 40
DefaultNirDarkPct == 15
DefaultShadowSearchDistance == 1000

\* is_cloud = cloud_prob.gt(cloud_prob_threshold)
IsCloud(image, cloud_prob_threshold) ==
    [p \in Pixels |-> image.probability[p] > cloud_prob_threshold]

\* dark_pixels = nir.lt(nir_dark_threshold * 10000)
DarkPixels(image, nir_dark_pct) ==
    [p \in Pixels |-> image.B8[p] < (nir_dark_pct * 10000) \div 100]

\* is_cloud.directionalDistanceTransform(shadow_azimuth, maxDistance)
\*         .select("distance").mask()
\* The pixel row runs along shadow_azimuth: a zero-valued pixel gets a
\* distance iff a non-zero pixel lies at most maxDistance pixels up-sun.
ProjectedShadows(is_cloud, maxDistance) ==
    [p \in Pixels |->
        /\ ~is_cloud[p]
        /\ \E q \in Pixels : is_cloud[q] /\ q < p /\ p - q <= maxDistance]

IsShadow_any_dark(image, cloud_prob_threshold, nir_dark_pct, shadow_search_distance) ==
    DarkPixels(image, nir_dark_pct)

\* is_shadow = dark_pixels.And(projected_shadows)
IsShadow(image, cloud_prob_threshold, nir_dark_pct, shadow_search_distance) ==
    LET is_cloud == IsCloud(image, cloud_prob_threshold)
        dark_pixels == DarkPixels(image, nir_dark_pct)
        projected_shadows == ProjectedShadows(is_cloud, shadow_search_distance)
    IN  [p \in Pixels |-> dark_pixels[p] /\ projected_shadows[p]]

mask_cloud_shadows(image, cloud_prob_threshold, nir_dark_pct, shadow_search_distance) ==
    LET is_cloud == IsCloud(image, cloud_prob_threshold)
        is_shadow == IsShadow(image, cloud_prob_threshold, nir_dark_pct,
                              shadow_search_distance)
        clear_mask == [p \in Pixels |-> ~is_cloud[p] /\ ~is_shadow[p]]
    IN  [image EXCEPT !.mask = UpdateMask(@, clear_mask)]

\* ------------------------------------------------------------------------
\* apply_comprehensive_cloud_mask  (src/cloud.py:199-242)
\* ------------------------------------------------------------------------
\* mask_shadows is accepted and never read
apply_comprehensive_cloud_mask(s2, cloudless, cloud_threshold, mask_shadows) ==
    LET thresh == OrDefault(cloud_threshold, CLOUD_PROBABILITY_THRESHOLD)
        collection_with_prob == add_cloud_probability(s2, cloudless)
        apply_masks(image) ==
            mask_s2_clouds_scl(mask_s2_clouds_probability(image, thresh))
        \* collection_with_prob.map(apply_masks)
    IN  [k \in 1..Len(collection_with_prob) |-> apply_masks(collection_with_prob[k])]

\* the masking stage of analyze_fun  (src/analysis.py:28, 47-52);
\* mask_shadows keeps its default, True
analyze_fun_mask(s2, cloudless, cloud_max) ==
    apply_comprehensive_cloud_mask(
        s2, cloudless, OrDefault(cloud_max, CLOUD_PROBABILITY_THRESHOLD), TRUE)

\* ------------------------------------------------------------------------
\* Calls into cloud.py
\* ------------------------------------------------------------------------
ShadowThresholdArgs == {0, DefaultCloudProbThreshold}
ShadowDistanceArgs == {1, DefaultShadowSearchDistance}

\* A run makes one call on the collections it was given (cloud_ret = NoCall
\* before it); the call leaves its inputs alone.
UnchangedCloudInputs ==
    UNCHANGED <<qa_image, qa_ret, s2_collection, cloudless_collection,
                collection, comp_ret, soil_image, soil_ret,
                   hist_data, pipe, wait>>

Call_mask_s2_clouds_probability ==
    LET joined == add_cloud_probability(s2_collection, cloudless_collection)
    IN  \E i \in 1..Len(joined), threshold \in ThresholdArgs :
            /\ cloud_ret = NoCall
            /\ cloud_ret' = [fn |-> "mask_s2_clouds_probability",
                             image |-> joined[i],
                             threshold |-> threshold,
                             value |-> mask_s2_clouds_probability(joined[i], threshold)]
            /\ UnchangedCloudInputs

Call_mask_cloud_shadows ==
    LET joined == add_cloud_probability(s2_collection, cloudless_collection)
    IN  \E i \in 1..Len(joined), cpt \in ShadowThresholdArgs,
           ssd \in ShadowDistanceArgs :
            /\ cloud_ret = NoCall
            /\ cloud_ret' = [fn |-> "mask_cloud_shadows",
                             image |-> joined[i],
                             cloud_prob_threshold |-> cpt,
                             nir_dark_pct |-> DefaultNirDarkPct,
                             shadow_search_distance |-> ssd,
                             value |-> mask_cloud_shadows(joined[i], cpt,
                                           DefaultNirDarkPct, ssd)]
            /\ UnchangedCloudInputs

Call_apply_comprehensive_cloud_mask ==
    \E cloud_threshold \in ThresholdArgs, mask_shadows \in BOOLEAN :
        /\ cloud_ret = NoCall
        /\ cloud_ret' = [fn |-> "apply_comprehensive_cloud_mask",
                         threshold |-> cloud_threshold,
                         mask_shadows |-> mask_shadows,
                         value |-> apply_comprehensive_cloud_mask(
                                       s2_collection, cloudless_collection,
                                       cloud_threshold, mask_shadows)]
        /\ UnchangedCloudInputs

Call_analyze_fun_mask ==
    \E cloud_max \in ThresholdArgs :
        /\ cloud_ret = NoCall
        /\ cloud_ret' = [fn |-> "analyze_fun",
                         threshold |-> cloud_max,
                         mask_shadows |-> TRUE,
                         value |-> analyze_fun_mask(s2_collection,
                                       cloudless_collection, cloud_max)]
        /\ UnchangedCloudInputs

\* ------------------------------------------------------------------------
\* Inputs of the cloud-masking stage
\* ------------------------------------------------------------------------
NIds == 3
Ids == 1..NIds

\* one scene with its probability image, every pixel free
RichInputs ==
    {<< <<[index |-> 1, SCL |-> scl, B8 |-> b8, mask |-> AllValid]>>,
        <<[index |-> 1, probability |-> prob]>> >> :
        scl \in [Pixels -> SclVals], b8 \in [Pixels -> B8Vals],
        prob \in [Pixels -> ProbVals]}

UniformScene(id) ==
    [index |-> id, SCL |-> [p \in Pixels |-> 4], B8 |-> [p \in Pixels |-> 1500],
     mask |-> AllValid]

RECURSIVE ProbImages(_, _)
\* the probability images of the ids >= id that f gives one, ascending
ProbImages(f, id) ==
    IF id > NIds THEN <<>>
    ELSE IF f[id] < 0 THEN ProbImages(f, id + 1)
    ELSE <<[index |-> id, probability |-> [p \in Pixels |-> f[id]]]>>
         \o ProbImages(f, id + 1)

\* up to MaxScenes scenes with distinct system:index, each with or without a
\* probability image, pixels uniform
JoinInputs ==
    {<< [i \in 1..n |-> UniformScene(order[i])], ProbImages(f, 1) >> :
        n \in 0..MaxScenes,
        order \in {o \in [1..MaxScenes -> Ids] :
                     \A a, b \in 1..MaxScenes : a # b => o[a] # o[b]},
        f \in [Ids -> {-1, 0, 41}]}

InitCloud ==
    /\ qa_image = [QA60 |-> [p \in Pixels |-> 0], mask |-> AllValid]
    /\ qa_ret = NoCall
    /\ \E inp \in RichInputs \cup JoinInputs :
            /\ s2_collection = inp[1]
            /\ cloudless_collection = inp[2]
    /\ cloud_ret = NoCall
    /\ collection = <<>>
    /\ comp_ret = NoCall
    /\ soil_image = NoImage
    /\ soil_ret = NoCall
    /\ hist_data = NoHistData
    /\ pipe = NoPipe
    /\ wait = NoWait

NextCloud ==
    \/ Call_mask_s2_clouds_probability
    \/ Call_mask_cloud_shadows
    \/ Call_apply_comprehensive_cloud_mask
    \/ Call_analyze_fun_mask

SpecCloud == InitCloud /\ [][NextCloud]_vars

\* ------------------------------------------------------------------------
\* Claims about cloud masking
\* ------------------------------------------------------------------------
\* The threshold a caller asks for: the argument, or the configured default
\* when the argument is left out (docstrings at src/cloud.py:124-126, 217-218)
RequestedThreshold(arg) ==
    IF arg = NoneInt THEN CLOUD_PROBABILITY_THRESHOLD ELSE arg

SclClear(image, p) == image.SCL[p] \notin {3, 8, 9, 10}

\* C1: in the output of apply_comprehensive_cloud_mask a pixel is valid iff
\* its probability is below the threshold and its SCL class is none of 3, 8,
\* 9, 10; nothing else adds or removes validity.
C1_ValidIffProbAndScl ==
    cloud_ret.fn = "apply_comprehensive_cloud_mask" =>
        \A k \in 1..Len(cloud_ret.value) : \A p \in Pixels :
            LET image == cloud_ret.value[k]
            IN  image.mask[p] <=>
                    (/\ image.probability[p] < RequestedThreshold(cloud_ret.threshold)
                     /\ SclClear(image, p))

\* C3: for every threshold in 0..100, threshold 0 included, given to
\* mask_s2_clouds_probability, apply_comprehensive_cloud_mask or analyze_fun,
\* a pixel passes the probability mask iff its probability is below that
\* threshold.
C3_PassesIffBelowThreshold ==
    /\ cloud_ret.fn = "mask_s2_clouds_probability" =>
          \A p \in Pixels :
              cloud_ret.value.mask[p] <=>
                  cloud_ret.image.probability[p] < RequestedThreshold(cloud_ret.threshold)
    /\ cloud_ret.fn \in {"apply_comprehensive_cloud_mask", "analyze_fun"} =>
          \A k \in 1..Len(cloud_ret.value) : \A p \in Pixels :
              LET image == cloud_ret.value[k]
                  below == image.probability[p] < RequestedThreshold(cloud_ret.threshold)
              IN  /\ image.mask[p] => below
                  /\ (below /\ SclClear(image, p)) => image.mask[p]

\* C4: the masked stack holds exactly one scene for each input scene whose
\* system:index matches a probability image, in the input's order, and none
\* for an input scene without a match.
C4_UnmatchedScenesDropped ==
    cloud_ret.fn \in {"apply_comprehensive_cloud_mask", "analyze_fun"} =>
        LET out == cloud_ret.value
            Matched(i) == \E j \in 1..Len(cloudless_collection) :
                              cloudless_collection[j].index = s2_collection[i].index
            Copies(i) == {k \in 1..Len(out) : out[k].index = s2_collection[i].index}
        IN  /\ \A i \in 1..Len(s2_collection) :
                   Cardinality(Copies(i)) = IF Matched(i) THEN 1 ELSE 0
            /\ \A k \in 1..Len(out) :
                   \E i \in 1..Len(s2_collection) : k \in Copies(i) /\ Matched(i)

\* Two input scenes, the first without a probability image: only the second
\* comes out.
C4_Witness ==
    /\ cloud_ret.fn = "apply_comprehensive_cloud_mask"
    /\ Len(s2_collection) = 2
    /\ Len(cloudless_collection) = 1
    /\ cloudless_collection[1].index = s2_collection[2].index
    /\ Len(cloud_ret.value) = 1
    /\ cloud_ret.value[1].index = s2_collection[2].index

\* C5: in mask_cloud_shadows a pixel is cloud iff probability >
\* cloud_prob_threshold, dark iff B8 < nir_dark_threshold*10000, shadow iff
\* dark and inside the footprint projected from the cloud pixels, and valid
\* in the output iff neither cloud nor shadow.
C5_ValidIffNeitherCloudNorShadow ==
    cloud_ret.fn = "mask_cloud_shadows" =>
        LET image == cloud_ret.image
            cloud == [p \in Pixels |->
                         image.probability[p] > cloud_ret.cloud_prob_threshold]
            footprint == ProjectedShadows(cloud, cloud_ret.shadow_search_distance)
        IN  \A p \in Pixels :
                LET dark == image.B8[p] * 100 < cloud_ret.nir_dark_pct * 10000
                    shadow == dark /\ footprint[p]
                IN  cloud_ret.value.mask[p] <=> (~cloud[p] /\ ~shadow)

\* A dark pixel above every cloud stays valid although the next pixel is a
\* cloud.
C5_Witness ==
    /\ cloud_ret.fn = "mask_cloud_shadows"
    /\ cloud_ret.cloud_prob_threshold = DefaultCloudProbThreshold
    /\ cloud_ret.image.B8[1] = 1499
    /\ cloud_ret.image.probability[1] = 40
    /\ cloud_ret.image.probability[2] = 41
    /\ cloud_ret.value.mask[1]
    /\ ~cloud_ret.value.mask[2]

\* C6: with mask_shadows=True every pixel that mask_cloud_shadows classifies
\* as shadow is invalid in the output of apply_comprehensive_cloud_mask; with
\* mask_shadows=False the shadow classification has no effect on the output.
C6_ShadowPixelsInvalid ==
    cloud_ret.fn \in {"apply_comprehensive_cloud_mask", "analyze_fun"} =>
        \A k \in 1..Len(cloud_ret.value) :
            LET image == cloud_ret.value[k]
                is_shadow == IsShadow(image, DefaultCloudProbThreshold,
                                 DefaultNirDarkPct, DefaultShadowSearchDistance)
                thresh == OrDefault(cloud_ret.threshold, CLOUD_PROBABILITY_THRESHOLD)
            IN  \A p \in Pixels :
                    IF cloud_ret.mask_shadows
                    THEN is_shadow[p] => ~image.mask[p]
                    ELSE image.mask[p] <=>
                             (image.probability[p] < thresh /\ SclClear(image, p))

\* ------------------------------------------------------------------------
\* Compositing  (src/compositing.py)
\* ------------------------------------------------------------------------
\* A reducer acts on each pixel by itself, so the stack is modelled at one
\* pixel: a scene is [time, bands, val, mask], val[b] the integer
\* reflectance of band b and mask TRUE where the cloud mask left the pixel
\* valid.  A band name is a sequence of tokens, <<"B4">> or <<"B4", "_p50">>.
\* A composite is [bands, val, mask] with rational values <<num, den>>.
B4 == <<"B4">>
B8 == <<"B8">>
B11 == <<"B11">>
AllBands == <<B4, B8, B11>>

RECURSIVE GCD(_, _)
GCD(a, b) == IF b = 0 THEN a ELSE GCD(b, a % b)

Abs(x) == IF x < 0 THEN -x ELSE x

\* the rational n/d in lowest terms, d > 0
Rat(n, d) == LET g == GCD(Abs(n), d) IN <<n \div g, d \div g>>

\* value of a masked pixel
NoData == <<0, 0>>

RatLess(x, y) == x[1] * y[2] < y[1] * x[2]

SeqRange(seq) == {seq[i] : i \in 1..Len(seq)}

RECURSIVE Insert(_, _)
Insert(x, sorted) ==
    IF sorted = <<>> THEN <<x>>
    ELSE IF x <= Head(sorted) THEN <<x>> \o sorted
    ELSE <<Head(sorted)>> \o Insert(x, Tail(sorted))

RECURSIVE Sort(_)
Sort(seq) == IF seq = <<>> THEN <<>> ELSE Insert(Head(seq), Sort(Tail(seq)))

RECURSIVE SumSeq(_)
SumSeq(seq) == IF seq = <<>> THEN 0 ELSE Head(seq) + SumSeq(Tail(seq))

RECURSIVE ValidValues_zero_filled(_, _)
ValidValues_zero_filled(coll, b) ==
    IF coll = <<>> THEN <<>>
    ELSE (IF Head(coll).mask THEN <<Head(coll).val[b]>> ELSE <<0>>)
         \o ValidValues_zero_filled(Tail(coll), b)

RECURSIVE ValidValues(_, _)
\* the inputs a reducer sees at the pixel: masked observations are skipped
ValidValues(coll, b) ==
    IF coll = <<>> THEN <<>>
    ELSE (IF Head(coll).mask THEN <<Head(coll).val[b]>> ELSE <<>>)
         \o ValidValues(Tail(coll), b)

\* ee.Reducer.median: the middle value, the mean of the two middle values
\* for an even count
ReduceMedian_unsorted(vals) ==
    LET n == Len(vals)
    IN  IF n % 2 = 1 THEN Rat(vals[(n + 1) \div 2], 1)
        ELSE Rat(vals[n \div 2] + vals[(n \div 2) + 1], 2)

ReduceMedian(vals) ==
    LET s == Sort(vals)
        n == Len(s)
    IN  IF n % 2 = 1 THEN Rat(s[(n + 1) \div 2], 1)
        ELSE Rat(s[n \div 2] + s[(n \div 2) + 1], 2)

ReduceMean(vals) == Rat(SumSeq(vals), Len(vals))

ReduceMin(vals) == Rat(CHOOSE v \in SeqRange(vals) : \A w \in SeqRange(vals) : v <= w, 1)

ReduceMax(vals) == Rat(CHOOSE v \in SeqRange(vals) : \A w \in SeqRange(vals) : v >= w, 1)

\* ee.Reducer.percentile([p]) on few inputs: an input value is returned
\* (nearest rank), without interpolation between neighbours
ReducePercentile(vals, p) ==
    LET s == Sort(vals)
        n == Len(s)
        rank == (p * n + 99) \div 100
    IN  Rat(s[IF rank < 1 THEN 1 ELSE rank], 1)

Reduce(reducer, p, vals) ==
    CASE reducer = "median" -> ReduceMedian(vals)
      [] reducer = "mean" -> ReduceMean(vals)
      [] reducer = "min" -> ReduceMin(vals)
      [] reducer = "max" -> ReduceMax(vals)
      [] reducer = "percentile" -> ReducePercentile(vals, p)

\* collection.select(bands)
SelectBands(coll, bands) == [i \in 1..Len(coll) |-> [coll[i] EXCEPT !.bands = bands]]

\* bands of the reduction of a collection: those of its first image
CollBands(coll) == IF coll = <<>> THEN <<>> ELSE coll[1].bands

\* ee.ImageCollection.reduce / .median() / .mean() / .min() / .max(): band
\* by band over the unmasked inputs; masked where there is none.  suffix is
\* the tag reduce() appends to the band names.
ReduceCollection(coll, reducer, p, suffix) ==
    LET names == CollBands(coll)
        Out(b) == b \o suffix
        In(name) == CHOOSE b \in SeqRange(names) : Out(b) = name
    IN  [bands |-> [k \in 1..Len(names) |-> Out(names[k])],
         val |-> [name \in {Out(b) : b \in SeqRange(names)} |->
                    IF ValidValues(coll, In(name)) = <<>> THEN NoData
                    ELSE Reduce(reducer, p, ValidValues(coll, In(name)))],
         mask |-> [name \in {Out(b) : b \in SeqRange(names)} |->
                    ValidValues(coll, In(name)) # <<>>]]

create_median_composite(coll, bands) ==
    ReduceCollection(IF bands # <<>> THEN SelectBands(coll, bands) ELSE coll,
                     "median", 0, <<>>)

create_mean_composite(coll, bands) ==
    ReduceCollection(IF bands # <<>> THEN SelectBands(coll, bands) ELSE coll,
                     "mean", 0, <<>>)

create_min_composite(coll, bands) ==
    ReduceCollection(IF bands # <<>> THEN SelectBands(coll, bands) ELSE coll,
                     "min", 0, <<>>)

create_max_composite(coll, bands) ==
    ReduceCollection(IF bands # <<>> THEN SelectBands(coll, bands) ELSE coll,
                     "max", 0, <<>>)

\* the token reduce(ee.Reducer.percentile([p])) appends: "_p<p>"
PTag(p) == "_p" \o ToString(p)

RECURSIVE RemoveFirst(_, _)
\* ee.String(name).replace(tag, ""): the first occurrence is removed
RemoveFirst(name, tag) ==
    IF name = <<>> THEN <<>>
    ELSE IF Head(name) = tag THEN Tail(name)
    ELSE <<Head(name)>> \o RemoveFirst(Tail(name), tag)

\* composite.rename(new_names), new_names[k] the new name of band k
Rename(image, new_names) ==
    [bands |-> new_names,
     val |-> [name \in SeqRange(new_names) |->
                image.val[image.bands[CHOOSE k \in 1..Len(new_names) : new_names[k] = name]]],
     mask |-> [name \in SeqRange(new_names) |->
                image.mask[image.bands[CHOOSE k \in 1..Len(new_names) : new_names[k] = name]]]]

create_percentile_composite(coll, percentile, bands) ==
    LET composite == ReduceCollection(
                         IF bands # <<>> THEN SelectBands(coll, bands) ELSE coll,
                         "percentile", percentile, <<PTag(percentile)>>)
        band_names == composite.bands
        new_names == [k \in 1..Len(band_names) |->
                         RemoveFirst(band_names[k], PTag(percentile))]
    IN  Rename(composite, new_names)

\* ee.Image.normalizedDifference([a, b]) at the pixel: (a - b) / (a + b),
\* masked where the image is masked or a + b = 0
NormalizedDifference(image, a, b) ==
    LET sum == image.val[a] + image.val[b]
    IN  IF image.mask /\ sum # 0
        THEN [valid |-> TRUE, q |-> Rat(image.val[a] - image.val[b], sum)]
        ELSE [valid |-> FALSE, q |-> NoData]

\* add_ndvi  (src/compositing.py:172-174)
add_ndvi(image) == NormalizedDifference(image, B8, B4)

\* add_ndmi  (src/compositing.py:200-205): the negated NDMI
add_ndmi(image) ==
    LET ndmi == NormalizedDifference(image, B8, B11)
    IN  IF ndmi.valid THEN [valid |-> TRUE, q |-> <<-ndmi.q[1], ndmi.q[2]>>]
        ELSE ndmi

\* the image a quality mosaic takes the pixel from: one whose quality is
\* unmasked and not below any other; of several such, the first of the
\* collection
BestLast(quality) ==
    CHOOSE i \in 1..Len(quality) :
        /\ quality[i].valid
        /\ \A j \in (i + 1)..Len(quality) : ~quality[j].valid

Best(quality) ==
    CHOOSE i \in 1..Len(quality) :
        /\ quality[i].valid
        /\ \A j \in 1..Len(quality) :
               quality[j].valid => ~RatLess(quality[i].q, quality[j].q)
        /\ \A j \in 1..(i - 1) :
               quality[j].valid => RatLess(quality[j].q, quality[i].q)

\* ee.ImageCollection.qualityMosaic(qname) on the collection whose image i
\* got the quality band quality[i]
QualityMosaic(coll, qname, quality) ==
    LET names == IF coll = <<>> THEN <<>> ELSE coll[1].bands \o <<qname>>
        some == \E i \in 1..Len(coll) : quality[i].valid
    IN  [bands |-> names,
         val |-> [name \in SeqRange(names) |->
                    IF ~some THEN NoData
                    ELSE IF name = qname THEN quality[Best(quality)].q
                    ELSE Rat(coll[Best(quality)].val[name], 1)],
         mask |-> [name \in SeqRange(names) |-> some]]

create_greenest_pixel_composite(coll) ==
    LET collection_with_ndvi == [i \in 1..Len(coll) |-> add_ndvi(coll[i])]
    IN  QualityMosaic(coll, <<"NDVI">>, collection_with_ndvi)

create_driest_pixel_composite(coll) ==
    LET collection_with_ndmi == [i \in 1..Len(coll) |-> add_ndmi(coll[i])]
    IN  QualityMosaic(coll, <<"NDMI_inv">>, collection_with_ndmi)

KnownMethods == {"median", "mean", "percentile", "min", "max", "greenest", "driest"}

create_composite_unknown_is_mean(coll, method_arg, percentile_arg, bands) ==
    LET method == IF method_arg = NoneStr THEN COMPOSITE_METHOD ELSE method_arg
        percentile == OrDefault(percentile_arg, COMPOSITE_PERCENTILE)
    IN  CASE method = "median" -> create_median_composite(coll, bands)
          [] method = "mean" -> create_mean_composite(coll, bands)
          [] method = "percentile" -> create_percentile_composite(coll, percentile, bands)
          [] method = "min" -> create_min_composite(coll, bands)
          [] method = "max" -> create_max_composite(coll, bands)
          [] method = "greenest" -> create_greenest_pixel_composite(coll)
          [] method = "driest" -> create_driest_pixel_composite(coll)
          [] OTHER -> create_mean_composite(coll, bands)

\* create_composite  (src/compositing.py:270-310)
create_composite(coll, method_arg, percentile_arg, bands) ==
    LET method == IF method_arg = NoneStr THEN COMPOSITE_METHOD ELSE method_arg
        percentile == OrDefault(percentile_arg, COMPOSITE_PERCENTILE)
    IN  CASE method = "median" -> create_median_composite(coll, bands)
          [] method = "mean" -> create_mean_composite(coll, bands)
          [] method = "percentile" -> create_percentile_composite(coll, percentile, bands)
          [] method = "min" -> create_min_composite(coll, bands)
          [] method = "max" -> create_max_composite(coll, bands)
          [] method = "greenest" -> create_greenest_pixel_composite(coll)
          [] method = "driest" -> create_driest_pixel_composite(coll)
          [] OTHER -> create_median_composite(coll, bands)

\* whether create_composite prints "Unknown method ..., defaulting to median"
create_composite_warns(method_arg) ==
    (IF method_arg = NoneStr THEN COMPOSITE_METHOD ELSE method_arg) \notin KnownMethods

\* ------------------------------------------------------------------------
\* Calls of create_composite and their inputs
\* ------------------------------------------------------------------------
MethodArgs == KnownMethods \cup {NoneStr, "mode"}
BandsArgs == {<<>>, <<B4, B8>>}

\* percentile is given only together with method "percentile"
CompositeCalls ==
    {[method |-> m, percentile |-> NoneInt, bands |-> bs] :
        m \in MethodArgs, bs \in BandsArgs}
    \cup {[method |-> "percentile", percentile |-> q, bands |-> bs] :
        q \in {50, 100}, bs \in BandsArgs}

Call_create_composite ==
    \E call \in CompositeCalls :
        /\ comp_ret = NoCall
        /\ comp_ret' = [fn |-> "create_composite",
                        method |-> call.method,
                        percentile |-> call.percentile,
                        bands |-> call.bands,
                        warned |-> create_composite_warns(call.method),
                        value |-> create_composite(collection, call.method,
                                      call.percentile, call.bands)]
        /\ UNCHANGED <<qa_image, qa_ret, s2_collection, cloudless_collection,
                       cloud_ret, collection, soil_image, soil_ret,
                   hist_data, pipe, wait>>

\* reflectances of a pixel in three scenes: the first two have the same NDVI
\* (1/2), the last two the same NDMI (0)
PixelVals ==
    {[b \in SeqRange(AllBands) |-> IF b = B4 THEN 1000 ELSE IF b = B8 THEN 3000 ELSE 1000],
     [b \in SeqRange(AllBands) |-> IF b = B4 THEN 2000 ELSE IF b = B8 THEN 6000 ELSE 6000],
     [b \in SeqRange(AllBands) |-> IF b = B4 THEN 6000 ELSE IF b = B8 THEN 2000 ELSE 2000]}

\* stacks of up to MaxStack scenes with distinct acquisition times, oldest
\* first or newest first
Stacks ==
    UNION {
        {[i \in 1..n |-> [time |-> t[i], bands |-> AllBands, val |-> v[i], mask |-> m[i]]] :
            t \in {[i \in 1..n |-> i], [i \in 1..n |-> n + 1 - i]},
            v \in [1..n -> PixelVals],
            m \in [1..n -> BOOLEAN]} :
        n \in 0..MaxStack}

InitComposite ==
    /\ qa_image = [QA60 |-> [p \in Pixels |-> 0], mask |-> AllValid]
    /\ qa_ret = NoCall
    /\ s2_collection = <<>>
    /\ cloudless_collection = <<>>
    /\ cloud_ret = NoCall
    /\ collection \in Stacks
    /\ comp_ret = NoCall
    /\ soil_image = NoImage
    /\ soil_ret = NoCall
    /\ hist_data = NoHistData
    /\ pipe = NoPipe
    /\ wait = NoWait

NextComposite == Call_create_composite

SpecComposite == InitComposite /\ [][NextComposite]_vars

\* ------------------------------------------------------------------------
\* Claims about compositing
\* ------------------------------------------------------------------------
Perms(n) == {f \in [1..n -> 1..n] : \A a, b \in 1..n : a # b => f[a] # f[b]}

Permuted(coll, f) == [i \in 1..Len(coll) |-> coll[f[i]]]

\* the method create_composite dispatches on
MethodUsed == IF comp_ret.method = NoneStr THEN COMPOSITE_METHOD ELSE comp_ret.method

\* scenes of the stack in which the pixel is valid
ValidScenes == {i \in 1..Len(collection) : collection[i].mask}

\* C7: for median, mean, min and max, create_composite gives the same
\* composite (values and masks) for every permutation of the stack.
C7_OrderInvariant ==
    (comp_ret.fn = "create_composite" /\ comp_ret.method \in {"median", "mean", "min", "max"}) =>
        \A f \in Perms(Len(collection)) :
            create_composite(Permuted(collection, f), comp_ret.method,
                             comp_ret.percentile, comp_ret.bands) = comp_ret.value

\* A median over three valid scenes whose middle scene does not hold the
\* middle value.
C7_Witness ==
    /\ comp_ret.fn = "create_composite"
    /\ comp_ret.method = "median"
    /\ Len(collection) = 3
    /\ ValidScenes = {1, 2, 3}
    /\ collection[1].val[B4] = 2000
    /\ collection[2].val[B4] = 6000
    /\ collection[3].val[B4] = 1000
    /\ comp_ret.value.val[B4] = <<2000, 1>>

\* C8: create_composite(method='percentile', percentile=50) and
\* create_composite(method='median') give the same band names and the same
\* value at every band, for an odd and for an even number of valid
\* observations.
C8_Percentile50IsMedian ==
    (comp_ret.fn = "create_composite" /\ comp_ret.method = "percentile"
        /\ comp_ret.percentile = 50) =>
        LET median == create_composite(collection, "median", NoneInt, comp_ret.bands)
        IN  /\ comp_ret.value.bands = median.bands
            /\ \A b \in SeqRange(median.bands) :
                   /\ comp_ret.value.mask[b] = median.mask[b]
                   /\ comp_ret.value.val[b] = median.val[b]

\* C9: in a statistical composite a value is computed only from the scenes
\* in which the pixel is valid: whatever a masked observation holds (0
\* included) the composite is the same, a band with a valid observation lies
\* between the least and the greatest valid observation, and a pixel masked
\* in every scene is masked in the composite.
C9_MaskedNeverContributes ==
    (comp_ret.fn = "create_composite" /\ MethodUsed \notin {"greenest", "driest"}) =>
        LET out == comp_ret.value
            Zero == [b \in SeqRange(AllBands) |-> 0]
        IN  /\ \A b \in SeqRange(out.bands) :
                   IF ValidScenes = {}
                   THEN ~out.mask[b]
                   ELSE /\ out.mask[b]
                        /\ \E i \in ValidScenes :
                               out.val[b][1] >= collection[i].val[b] * out.val[b][2]
                        /\ \E i \in ValidScenes :
                               out.val[b][1] <= collection[i].val[b] * out.val[b][2]
            /\ \A i \in (1..Len(collection)) \ ValidScenes :
                   \A v \in PixelVals \cup {Zero} :
                       create_composite([collection EXCEPT ![i].val = v],
                                        comp_ret.method, comp_ret.percentile,
                                        comp_ret.bands) = out

\* A mean over a stack whose first scene is masked: the mean of the other
\* two.
C9_Witness ==
    /\ comp_ret.fn = "create_composite"
    /\ comp_ret.method = "mean"
    /\ Len(collection) = 3
    /\ ValidScenes = {2, 3}
    /\ collection[1].val[B4] = 6000
    /\ collection[2].val[B4] = 1000
    /\ collection[3].val[B4] = 2000
    /\ comp_ret.value.val[B4] = <<1500, 1>>

\* C10: for 'greenest' (resp. 'driest') the reflectance bands of the
\* composite all come from one input scene, and that scene has the greatest
\* NDVI = (B8-B4)/(B8+B4) (resp. the least NDMI = (B8-B11)/(B8+B11)) among
\* the scenes in which the pixel is valid.
C10_BandsFromOneBestScene ==
    (comp_ret.fn = "create_composite" /\ comp_ret.method \in {"greenest", "driest"}) =>
        LET out == comp_ret.value
            other == IF comp_ret.method = "greenest" THEN B4 ELSE B11
            Num(i) == collection[i].val[B8] - collection[i].val[other]
            Den(i) == collection[i].val[B8] + collection[i].val[other]
            \* index of scene i is not below (greenest) / not above (driest)
            \* that of scene j
            NotWorse(i, j) ==
                IF comp_ret.method = "greenest"
                THEN Num(i) * Den(j) >= Num(j) * Den(i)
                ELSE Num(i) * Den(j) <= Num(j) * Den(i)
        IN  IF ValidScenes = {}
            THEN \A b \in SeqRange(out.bands) : ~out.mask[b]
            ELSE \E i \in ValidScenes :
                    /\ \A b \in SeqRange(AllBands) :
                           out.mask[b] /\ out.val[b] = <<collection[i].val[b], 1>>
                    /\ \A j \in ValidScenes : NotWorse(i, j)

\* A greenest composite of three valid scenes whose last scene has the
\* lowest NDVI: the pixel comes from an earlier scene.
C10_Witness ==
    /\ comp_ret.fn = "create_composite"
    /\ comp_ret.method = "greenest"
    /\ Len(collection) = 3
    /\ ValidScenes = {1, 2, 3}
    /\ collection[3].val[B4] = 6000
    /\ collection[1].val[B4] = 1000
    /\ comp_ret.value.val[B4] = <<1000, 1>>
    /\ comp_ret.value.val[B8] = <<3000, 1>>
    /\ comp_ret.value.val[B11] = <<1000, 1>>


\* C11: when several valid scenes share the best quality index in a
\* 'greenest' or 'driest' composite, the pixel is taken from the one with
\* the earliest acquisition time, so that every ordering of the stack gives
\* the same composite.
C11_TieBrokenByEarliestTime ==
    (comp_ret.fn = "create_composite" /\ comp_ret.method \in {"greenest", "driest"}
        /\ ValidScenes # {}) =>
        LET out == comp_ret.value
            other == IF comp_ret.method = "greenest" THEN B4 ELSE B11
            Num(i) == collection[i].val[B8] - collection[i].val[other]
            Den(i) == collection[i].val[B8] + collection[i].val[other]
            NotWorse(i, j) ==
                IF comp_ret.method = "greenest"
                THEN Num(i) * Den(j) >= Num(j) * Den(i)
                ELSE Num(i) * Den(j) <= Num(j) * Den(i)
            BestScenes == {i \in ValidScenes : \A j \in ValidScenes : NotWorse(i, j)}
            earliest == CHOOSE i \in BestScenes :
                            \A j \in BestScenes : collection[i].time <= collection[j].time
        IN  /\ \A b \in SeqRange(AllBands) :
                   out.val[b] = <<collection[earliest].val[b], 1>>
            /\ \A f \in Perms(Len(collection)) :
                   create_composite(Permuted(collection, f), comp_ret.method,
                                    comp_ret.percentile, comp_ret.bands) = out

C13_OnlyRequestedBands ==
    (comp_ret.fn = "create_composite" /\ comp_ret.bands # <<>>
        /\ MethodUsed \in KnownMethods /\ collection # <<>>) =>
        \A b \in SeqRange(comp_ret.value.bands) : b \in SeqRange(comp_ret.bands)


\* ------------------------------------------------------------------------
\* create_monthly_composites  (src/compositing.py:216-267)
\* ------------------------------------------------------------------------
\* A date is a day of a common year, 1..365; the time of a scene is the day
\* it was acquired on.
MonthDays == <<31, 28, 31, 30, 31, 30, 31, 31, 30, 31, 30, 31>>

RECURSIVE DaysBefore(_)
\* days of the year before month m
DaysBefore(m) == IF m = 1 THEN 0 ELSE DaysBefore(m - 1) + MonthDays[m - 1]

\* ee.Date("YYYY-MM-DD")
MakeDate(m, d) == DaysBefore(m) + d

MonthOf(t) == CHOOSE m \in 1..12 : DaysBefore(m) < t /\ t <= DaysBefore(m) + MonthDays[m]

DayOf(t) == t - DaysBefore(MonthOf(t))

\* ee.Date.advance(k, "month"): the same day of the month k months later,
\* the last day of that month when it has no such day
Advance(t, k) ==
    LET m == MonthOf(t) + k
    IN  MakeDate(m, IF DayOf(t) > MonthDays[m] THEN MonthDays[m] ELSE DayOf(t))

\* end.difference(start, "month").round(): the elapsed time in mean months
\* (365.25 / 12 = 487/16 days), rounded to the nearest whole number
DifferenceMonthsRounded(end, start) == (32 * (end - start) + 487) \div 974

\* ee.ImageCollection.filterDate(a, b): a inclusive, b exclusive
FilterDate(coll, a, b) ==
    SelectSeq(coll, LAMBDA s : a <= s.time /\ s.time < b)

\* the reducer make_monthly_composite applies for a method
MonthlyReducer(method) ==
    IF method \in {"median", "mean", "max", "min"} THEN method ELSE "median"

\* month_start and month_end of the bucket at month_offset
MonthStart(start, month_offset) == Advance(start, month_offset)
MonthEnd(start, month_offset) == Advance(MonthStart(start, month_offset), 1)

\* the monthly_collection of every bucket, months 0 .. n_months - 1
MonthlyCollections(coll, start, end) ==
    LET n_months == DifferenceMonthsRounded(end, start)
    IN  [k \in 1..n_months |->
            FilterDate(coll, MonthStart(start, k - 1), MonthEnd(start, k - 1))]

create_monthly_composites(coll, start, end, method) ==
    LET monthly == MonthlyCollections(coll, start, end)
    IN  [k \in 1..Len(monthly) |->
            [time_start |-> MonthStart(start, k - 1),
             composite |-> ReduceCollection(monthly[k], MonthlyReducer(method), 0, <<>>)]]

\* calls: ranges of whole months, ranges ending inside a month, a range
\* starting on the 31st
StartDates == {MakeDate(1, 1), MakeDate(1, 31)}
EndDates == {MakeDate(1, 10), MakeDate(3, 1), MakeDate(3, 10), MakeDate(3, 20),
             MakeDate(4, 30)}
MonthlyMethods == {"median", "max", "mode"}

Call_create_monthly_composites ==
    \E start \in StartDates, end \in EndDates, method \in MonthlyMethods :
        /\ comp_ret = NoCall
        /\ start <= end
        /\ comp_ret' = [fn |-> "create_monthly_composites",
                        start_date |-> start,
                        end_date |-> end,
                        method |-> method,
                        monthly_collection |-> MonthlyCollections(collection, start, end),
                        value |-> create_monthly_composites(collection, start, end, method)]
        /\ UNCHANGED <<qa_image, qa_ret, s2_collection, cloudless_collection,
                       cloud_ret, collection, soil_image, soil_ret,
                   hist_data, pipe, wait>>

\* days on which the scenes of the model are acquired
SceneDays == {MakeDate(1, 1), MakeDate(1, 31), MakeDate(2, 27), MakeDate(2, 28),
              MakeDate(3, 5), MakeDate(3, 25), MakeDate(3, 29), MakeDate(4, 1)}

RECURSIVE SetToSortedSeq(_)
SetToSortedSeq(S) ==
    IF S = {} THEN <<>>
    ELSE LET x == CHOOSE y \in S : \A z \in S : y <= z
         IN  <<x>> \o SetToSortedSeq(S \ {x})

\* stacks of up to MaxStack scenes acquired on different days, in order of
\* time; scene i holds reflectance 1000 * i in every band
MonthlyStacks ==
    {[i \in 1..Cardinality(D) |->
        [time |-> SetToSortedSeq(D)[i], bands |-> AllBands,
         val |-> [b \in SeqRange(AllBands) |-> 1000 * i], mask |-> m[i]]] :
        D \in {E \in SUBSET SceneDays : Cardinality(E) <= MaxStack},
        m \in [1..MaxStack -> BOOLEAN]}

InitMonthly ==
    /\ qa_image = [QA60 |-> [p \in Pixels |-> 0], mask |-> AllValid]
    /\ qa_ret = NoCall
    /\ s2_collection = <<>>
    /\ cloudless_collection = <<>>
    /\ cloud_ret = NoCall
    /\ collection \in MonthlyStacks
    /\ comp_ret = NoCall
    /\ soil_image = NoImage
    /\ soil_ret = NoCall
    /\ hist_data = NoHistData
    /\ pipe = NoPipe
    /\ wait = NoWait

NextMonthly == Call_create_monthly_composites

SpecMonthly == InitMonthly /\ [][NextMonthly]_vars

\* C14: the month buckets of create_monthly_composites partition the
\* interval from start_date to end_date: no scene is in two buckets, every
\* scene with start_date <= t < end_date is in exactly one bucket, no bucket
\* holds a scene acquired at or after end_date, and there is one composite
\* per bucket.
C14_MonthBucketsPartition ==
    comp_ret.fn = "create_monthly_composites" =>
        LET buckets == comp_ret.monthly_collection
            In(i, k) == \E j \in 1..Len(buckets[k]) : buckets[k][j] = collection[i]
        IN  /\ Len(comp_ret.value) = Len(buckets)
            /\ \A i \in 1..Len(collection) :
                   LET t == collection[i].time
                       holding == {k \in 1..Len(buckets) : In(i, k)}
                   IN  /\ Cardinality(holding) <= 1
                       /\ (comp_ret.start_date <= t /\ t < comp_ret.end_date)
                              => Cardinality(holding) = 1
                       /\ t >= comp_ret.end_date => holding = {}


\* ------------------------------------------------------------------------
\* Soil indices  (src/soil.py)
\* ------------------------------------------------------------------------
\* In the soil stage an image is [bands, band]: bands the sequence of band
\* names and band[name] = [val, mask], val[p] the rational value at pixel p
\* (NoData where masked) and mask[p] TRUE where the pixel carries data.
B2 == <<"B2">>
B3 == <<"B3">>
B12 == <<"B12">>

\* config.S2_BANDS
S2_BANDS ==
    [blue |-> B2, green |-> B3, red |-> B4, nir |-> B8, swir_1 |-> B11, swir_2 |-> B12]

\* config.SOIL_INDICES
SOIL_INDICES == <<"NDSI", "BI", "CI", "NDMI", "BSI">>

\* Python's None for a list argument
NoneList == <<NoneStr>>

\* Python's `x or default` on a list: None and the empty list are falsy
OrDefaultList(x, default) == IF x = NoneList \/ x = <<>> THEN default ELSE x

RatAdd(x, y) == Rat(x[1] * y[2] + y[1] * x[2], x[2] * y[2])
RatSub(x, y) == Rat(x[1] * y[2] - y[1] * x[2], x[2] * y[2])
RatMul(x, y) == Rat(x[1] * y[1], x[2] * y[2])
RatLeq(x, y) == x[1] * y[2] <= y[1] * x[2]

\* the quotient ee.Image.divide computes: 0 for division by 0
RatDivide(x, y) ==
    IF y[1] = 0 THEN <<0, 1>>
    ELSE IF y[1] > 0 THEN Rat(x[1] * y[2], x[2] * y[1])
    ELSE Rat(-(x[1] * y[2]), x[2] * (-y[1]))

\* ee.Image.select(name): the one band
Select(img, name) == img.band[name]

\* ee.Image.constant(q)
ImgConstant(q) == [val |-> [p \in Pixels |-> q], mask |-> AllValid]

\* ee.Image.add / subtract / multiply / divide, pixel by pixel; the result
\* is masked where an operand is
ImgAdd(x, y) ==
    [val |-> [p \in Pixels |-> IF x.mask[p] /\ y.mask[p]
                               THEN RatAdd(x.val[p], y.val[p]) ELSE NoData],
     mask |-> [p \in Pixels |-> x.mask[p] /\ y.mask[p]]]

ImgSubtract(x, y) ==
    [val |-> [p \in Pixels |-> IF x.mask[p] /\ y.mask[p]
                               THEN RatSub(x.val[p], y.val[p]) ELSE NoData],
     mask |-> [p \in Pixels |-> x.mask[p] /\ y.mask[p]]]

ImgMultiply(x, y) ==
    [val |-> [p \in Pixels |-> IF x.mask[p] /\ y.mask[p]
                               THEN RatMul(x.val[p], y.val[p]) ELSE NoData],
     mask |-> [p \in Pixels |-> x.mask[p] /\ y.mask[p]]]

ImgDivide(x, y) ==
    [val |-> [p \in Pixels |-> IF x.mask[p] /\ y.mask[p]
                               THEN RatDivide(x.val[p], y.val[p]) ELSE NoData],
     mask |-> [p \in Pixels |-> x.mask[p] /\ y.mask[p]]]

\* ee.Image.normalizedDifference([a, b]): (a - b) / (a + b), masked where an
\* input is masked or negative or where a + b = 0
ImgNormalizedDifference(img, a, b) ==
    LET x == Select(img, a)
        y == Select(img, b)
        ok == [p \in Pixels |->
                  /\ x.mask[p] /\ y.mask[p]
                  /\ x.val[p][1] >= 0 /\ y.val[p][1] >= 0
                  /\ RatAdd(x.val[p], y.val[p])[1] # 0]
    IN  [val |-> [p \in Pixels |->
                    IF ok[p] THEN RatDivide(RatSub(x.val[p], y.val[p]),
                                            RatAdd(x.val[p], y.val[p]))
                    ELSE NoData],
         mask |-> ok]

\* a one-band image, as ee.Image.rename(name) leaves it
OneBand(name, b) == [bands |-> <<name>>, band |-> [n \in {name} |-> b]]

\* calculate_ndsi  (src/soil.py:12-32)
calculate_ndsi(img) ==
    OneBand(<<"NDSI">>, ImgNormalizedDifference(img, S2_BANDS.swir_1, S2_BANDS.nir))

\* calculate_bare_soil_index  (src/soil.py:35-59)
calculate_bare_soil_index(img) ==
    LET swir1 == Select(img, S2_BANDS.swir_1)
        red == Select(img, S2_BANDS.red)
        nir == Select(img, S2_BANDS.nir)
        blue == Select(img, S2_BANDS.blue)
        numerator == ImgSubtract(ImgSubtract(ImgAdd(swir1, red), nir), blue)
        denominator == ImgAdd(ImgAdd(ImgAdd(swir1, red), nir), blue)
    IN  OneBand(<<"BI">>, ImgDivide(numerator, denominator))

\* calculate_bsi  (src/soil.py:62-86)
calculate_bsi(img) ==
    LET swir2 == Select(img, S2_BANDS.swir_2)
        red == Select(img, S2_BANDS.red)
        nir == Select(img, S2_BANDS.nir)
        blue == Select(img, S2_BANDS.blue)
        numerator == ImgSubtract(ImgSubtract(ImgAdd(swir2, red), nir), blue)
        denominator == ImgAdd(ImgAdd(ImgAdd(swir2, red), nir), blue)
    IN  OneBand(<<"BSI">>,
                ImgAdd(ImgMultiply(ImgDivide(numerator, denominator),
                                   ImgConstant(<<100, 1>>)),
                       ImgConstant(<<100, 1>>)))

\* calculate_color_index  (src/soil.py:89-109)
calculate_color_index(img) ==
    LET red == Select(img, S2_BANDS.red)
        green == Select(img, S2_BANDS.green)
    IN  OneBand(<<"CI">>, ImgDivide(ImgSubtract(red, green), ImgAdd(red, green)))

\* calculate_ndmi  (src/soil.py:112-132)
calculate_ndmi(img) ==
    OneBand(<<"NDMI">>, ImgNormalizedDifference(img, S2_BANDS.nir, S2_BANDS.swir_1))

\* calculate_ndvi  (src/soil.py:135-155)
calculate_ndvi(img) ==
    OneBand(<<"NDVI">>, ImgNormalizedDifference(img, S2_BANDS.nir, S2_BANDS.red))

calculate_saturation_index_without_green(img) ==
    LET red == Select(img, S2_BANDS.red)
        green == Select(img, S2_BANDS.green)
        blue == Select(img, S2_BANDS.blue)
    IN  OneBand(<<"SSI">>,
                ImgDivide(ImgSubtract(red, green), ImgAdd(red, blue)))

\* calculate_saturation_index  (src/soil.py:158-178)
calculate_saturation_index(img) ==
    LET red == Select(img, S2_BANDS.red)
        green == Select(img, S2_BANDS.green)
        blue == Select(img, S2_BANDS.blue)
    IN  OneBand(<<"SSI">>,
                ImgDivide(ImgSubtract(red, green), ImgAdd(ImgAdd(red, green), blue)))

\* calculate_brightness_index  (src/soil.py:181-201): sqrt(red^2 + nir^2).
\* The band holds the square of the brightness, which is rational.
calculate_brightness_index(img) ==
    LET red == Select(img, S2_BANDS.red)
        nir == Select(img, S2_BANDS.nir)
    IN  OneBand(<<"Brightness">>, ImgAdd(ImgMultiply(red, red), ImgMultiply(nir, nir)))

\* calculate_clay_index  (src/soil.py:204-224)
calculate_clay_index(img) ==
    LET swir1 == Select(img, S2_BANDS.swir_1)
        swir2 == Select(img, S2_BANDS.swir_2)
    IN  OneBand(<<"ClayIndex">>, ImgDivide(swir1, swir2))

\* calculate_organic_matter_index  (src/soil.py:227-254)
calculate_organic_matter_index(img) ==
    LET red == Select(img, S2_BANDS.red)
        green == Select(img, S2_BANDS.green)
        red_norm == ImgDivide(red, ImgConstant(<<10000, 1>>))
        green_norm == ImgDivide(green, ImgConstant(<<10000, 1>>))
        som == ImgSubtract(
                   ImgConstant(<<1, 1>>),
                   ImgDivide(ImgSubtract(ImgMultiply(red_norm, ImgConstant(<<5, 2>>)),
                                         green_norm),
                             ImgAdd(red_norm, green_norm)))
    IN  OneBand(<<"SOM_Index">>, som)


\* names of the index_functions dictionary  (src/soil.py:305-316)
IndexNames == {"NDSI", "BI", "BSI", "CI", "NDMI", "NDVI", "SSI", "Brightness",
               "ClayIndex", "SOM_Index"}

\* index_functions[index_name](image)
index_functions(index_name, img) ==
    CASE index_name = "NDSI" -> calculate_ndsi(img)
      [] index_name = "BI" -> calculate_bare_soil_index(img)
      [] index_name = "BSI" -> calculate_bsi(img)
      [] index_name = "CI" -> calculate_color_index(img)
      [] index_name = "NDMI" -> calculate_ndmi(img)
      [] index_name = "NDVI" -> calculate_ndvi(img)
      [] index_name = "SSI" -> calculate_saturation_index(img)
      [] index_name = "Brightness" -> calculate_brightness_index(img)
      [] index_name = "ClayIndex" -> calculate_clay_index(img)
      [] index_name = "SOM_Index" -> calculate_organic_matter_index(img)

HasBand(img, name) == name \in SeqRange(img.bands)

\* ee.Image.addBands(other) for a one-band image: the band is appended; a
\* name the image already has gets the suffix "_1"
AddBands(img, other) ==
    LET name == other.bands[1]
        new == IF HasBand(img, name) THEN name \o <<"_1">> ELSE name
    IN  [bands |-> Append(img.bands, new),
         band |-> [n \in SeqRange(img.bands) \cup {new} |->
                     IF n = new THEN other.band[name] ELSE img.band[n]]]

RECURSIVE AddIndices(_, _, _)
\* the loop of calculate_selected_indices over indices_to_calc
AddIndices(img, result, names) ==
    IF names = <<>> THEN result
    ELSE AddIndices(img,
                    IF Head(names) \in IndexNames
                    THEN AddBands(result, index_functions(Head(names), img))
                    ELSE result,
                    Tail(names))

\* calculate_selected_indices  (src/soil.py:288-330)
calculate_selected_indices(img, indices) ==
    LET indices_to_calc == OrDefaultList(indices, SOIL_INDICES)
    IN  AddIndices(img, img, indices_to_calc)

\* the names calculate_selected_indices warns about
UnknownIndices(indices) ==
    {n \in SeqRange(OrDefaultList(indices, SOIL_INDICES)) : n \notin IndexNames}

\* defaults of create_bare_soil_mask: 0.3 and 100
DefaultNdviThreshold == <<3, 10>>
DefaultBsiThreshold == <<100, 1>>

create_bare_soil_mask_not_strict(img, ndvi_threshold, bsi_threshold) ==
    IF ~HasBand(img, <<"NDVI">>) \/ ~HasBand(img, <<"BSI">>)
    THEN [error |-> TRUE]
    ELSE LET ndvi == Select(img, <<"NDVI">>)
             bsi == Select(img, <<"BSI">>)
             both == [p \in Pixels |-> ndvi.mask[p] /\ bsi.mask[p]]
         IN  [error |-> FALSE,
              bands |-> <<<<"bare_soil_mask">>>>,
              val |-> [p \in Pixels |->
                         /\ both[p]
                         /\ RatLeq(ndvi.val[p], ndvi_threshold)
                         /\ RatLeq(bsi_threshold, bsi.val[p])],
              mask |-> both]

\* create_bare_soil_mask  (src/soil.py:333-366).  image.select(name) only
\* builds a request: it raises nothing when the band is missing, so neither
\* except branch is ever taken, and the missing band is an error of the
\* returned image, met when the image is evaluated.
create_bare_soil_mask(img, ndvi_threshold, bsi_threshold) ==
    IF ~HasBand(img, <<"NDVI">>) \/ ~HasBand(img, <<"BSI">>)
    THEN [error |-> TRUE]
    ELSE LET ndvi == Select(img, <<"NDVI">>)
             bsi == Select(img, <<"BSI">>)
             both == [p \in Pixels |-> ndvi.mask[p] /\ bsi.mask[p]]
         IN  [error |-> FALSE,
              bands |-> <<<<"bare_soil_mask">>>>,
              val |-> [p \in Pixels |->
                         /\ both[p]
                         /\ RatLess(ndvi.val[p], ndvi_threshold)
                         /\ RatLess(bsi_threshold, bsi.val[p])],
              mask |-> both]

\* ------------------------------------------------------------------------
\* Calls into soil.py and their inputs
\* ------------------------------------------------------------------------
ReflBands == <<B2, B3, B4, B8, B11, B12>>

\* reflectances of one pixel: the ends of the range in every band, and the
\* pair B4 = 3500, B8 = 6500 whose NDVI is exactly 0.3
RichPixels ==
    {f \in [SeqRange(ReflBands) -> {0, 3500, 6500, 10000}] :
        /\ f[B4] \in {0, 3500, 10000}
        /\ f[B8] \in {0, 6500, 10000}
        /\ \A b \in {B2, B3, B11, B12} : f[b] \in {0, 10000}}

\* a pixel with NDVI 0 and BSI exactly 100
ReferencePixel == [b \in SeqRange(ReflBands) |-> 10000]

\* the image whose pixel p holds the reflectances px[p], masked where
\* ~valid[p]
MakeImage(px, valid) ==
    [bands |-> ReflBands,
     band |-> [b \in SeqRange(ReflBands) |->
                 [val |-> [p \in Pixels |-> IF valid[p] THEN <<px[p][b], 1>> ELSE NoData],
                  mask |-> valid]]]

SoilImages ==
    {MakeImage([p \in Pixels |-> IF p = 1 THEN f ELSE ReferencePixel], AllValid) :
        f \in RichPixels}
    \cup {MakeImage([p \in Pixels |-> ReferencePixel], [p \in Pixels |-> p # 1])}

IndexListArgs ==
    {NoneList, <<>>, SOIL_INDICES, <<"NDVI", "BSI">>, <<"BSI", "FOO", "NDVI">>,
     <<"FOO">>, <<"NDVI", "SSI", "ClayIndex", "SOM_Index", "Brightness">>,
     <<"NDVI", "NDSI", "NDMI", "BI", "CI", "SSI", "BSI">>}

NdviThresholdArgs == {DefaultNdviThreshold, <<0, 1>>}
BsiThresholdArgs == {DefaultBsiThreshold, <<135, 1>>}

UnchangedBeforeSoil ==
    UNCHANGED <<qa_image, qa_ret, s2_collection, cloudless_collection, cloud_ret,
                collection, comp_ret, hist_data, pipe, wait>>

\* composite_with_indices = calculate_selected_indices(composite, indices)
Call_calculate_selected_indices ==
    \E indices \in IndexListArgs :
        /\ soil_ret = NoCall
        /\ soil_ret' = [fn |-> "calculate_selected_indices",
                        image |-> soil_image,
                        indices |-> indices,
                        unknown |-> UnknownIndices(indices),
                        value |-> calculate_selected_indices(soil_image, indices)]
        /\ soil_image' = calculate_selected_indices(soil_image, indices)
        /\ UnchangedBeforeSoil

Call_create_bare_soil_mask ==
    \E ndvi_threshold \in NdviThresholdArgs, bsi_threshold \in BsiThresholdArgs :
        /\ soil_ret.fn \in {"none", "calculate_selected_indices"}
        /\ soil_ret' = [fn |-> "create_bare_soil_mask",
                        image |-> soil_image,
                        ndvi_threshold |-> ndvi_threshold,
                        bsi_threshold |-> bsi_threshold,
                        value |-> create_bare_soil_mask(soil_image, ndvi_threshold,
                                                        bsi_threshold)]
        /\ UNCHANGED soil_image
        /\ UnchangedBeforeSoil

InitSoil ==
    /\ qa_image = [QA60 |-> [p \in Pixels |-> 0], mask |-> AllValid]
    /\ qa_ret = NoCall
    /\ s2_collection = <<>>
    /\ cloudless_collection = <<>>
    /\ cloud_ret = NoCall
    /\ collection = <<>>
    /\ comp_ret = NoCall
    /\ soil_image \in SoilImages
    /\ soil_ret = NoCall
    /\ hist_data = NoHistData
    /\ pipe = NoPipe
    /\ wait = NoWait

NextSoil ==
    \/ Call_calculate_selected_indices
    \/ Call_create_bare_soil_mask

SpecSoil == InitSoil /\ [][NextSoil]_vars


\* ------------------------------------------------------------------------
\* Claims about the soil indices and the bare-soil mask
\* ------------------------------------------------------------------------
\* integer reflectance of band b of img at pixel p (img unmasked at p)
Refl(img, b, p) == img.band[b].val[p][1]

\* the image is unmasked at pixel p in every reflectance band
ReflValid(img, p) == \A b \in SeqRange(ReflBands) : img.band[b].mask[p]

\* denominator of the formula of an index at pixel p
IndexDenominator(index_name, img, p) ==
    CASE index_name \in {"NDSI", "NDMI"} -> Refl(img, B8, p) + Refl(img, B11, p)
      [] index_name = "NDVI" -> Refl(img, B8, p) + Refl(img, B4, p)
      [] index_name = "BI" ->
             Refl(img, B11, p) + Refl(img, B4, p) + Refl(img, B8, p) + Refl(img, B2, p)
      [] index_name = "BSI" ->
             Refl(img, B12, p) + Refl(img, B4, p) + Refl(img, B8, p) + Refl(img, B2, p)
      [] index_name \in {"CI", "SOM_Index"} -> Refl(img, B4, p) + Refl(img, B3, p)
      [] index_name = "SSI" -> Refl(img, B4, p) + Refl(img, B3, p) + Refl(img, B2, p)
      [] index_name = "ClayIndex" -> Refl(img, B12, p)

\* index names of the list the call computes, in order
RECURSIVE Recognized(_)
Recognized(names) ==
    IF names = <<>> THEN <<>>
    ELSE (IF Head(names) \in IndexNames THEN <<Head(names)>> ELSE <<>>)
         \o Recognized(Tail(names))

\* C15: for integer reflectances in 0..10000 and a non-zero denominator,
\* NDVI, NDSI, NDMI, BI, CI and SSI have a value in [-1, 1] and BSI has a
\* value in [0, 200].
C15_IndexRanges ==
    soil_ret.fn = "calculate_selected_indices" =>
        \A n \in SeqRange(Recognized(OrDefaultList(soil_ret.indices, SOIL_INDICES)))
                 \cap {"NDVI", "NDSI", "NDMI", "BI", "CI", "SSI", "BSI"} :
            \A p \in Pixels :
                (ReflValid(soil_ret.image, p)
                    /\ IndexDenominator(n, soil_ret.image, p) # 0) =>
                    LET b == soil_ret.value.band[<<n>>]
                        num == b.val[p][1]
                        den == b.val[p][2]
                    IN  /\ b.mask[p]
                        /\ den > 0
                        /\ IF n = "BSI" THEN 0 <= num /\ num <= 200 * den
                           ELSE -den <= num /\ num <= den

\* A pixel with B8 = B2 = 0 and B4 = B12 = 10000: its NDVI is -1 and its
\* BSI is 200, the ends of the two ranges.
C15_Witness ==
    /\ soil_ret.fn = "calculate_selected_indices"
    /\ soil_ret.indices = <<"NDVI", "NDSI", "NDMI", "BI", "CI", "SSI", "BSI">>
    /\ Refl(soil_ret.image, B8, 1) = 0
    /\ Refl(soil_ret.image, B2, 1) = 0
    /\ Refl(soil_ret.image, B4, 1) = 10000
    /\ Refl(soil_ret.image, B12, 1) = 10000
    /\ soil_ret.value.band[<<"NDVI">>].val[1] = <<-1, 1>>
    /\ soil_ret.value.band[<<"BSI">>].val[1] = <<200, 1>>

\* C16: NDSI, BI, BSI, CI, NDMI, NDVI, SSI, ClayIndex and SOM_Index are
\* masked (carry no number) at a pixel where the denominator of their
\* formula is 0.
C16_ZeroDenominatorMasked ==
    soil_ret.fn = "calculate_selected_indices" =>
        \A n \in SeqRange(Recognized(OrDefaultList(soil_ret.indices, SOIL_INDICES)))
                 \ {"Brightness"} :
            \A p \in Pixels :
                (ReflValid(soil_ret.image, p)
                    /\ IndexDenominator(n, soil_ret.image, p) = 0) =>
                    ~soil_ret.value.band[<<n>>].mask[p]

\* C17: for every list given to calculate_selected_indices, the empty list
\* and lists with unknown names included, the result keeps every band of
\* the input as it is and appends exactly the bands of the names of the
\* list that are index names, each computed from the input image; an
\* unknown name adds no band.
C17_AppendsExactlyRequested ==
    soil_ret.fn = "calculate_selected_indices" =>
        LET input == soil_ret.image
            out == soil_ret.value
            requested == IF soil_ret.indices = NoneList THEN SOIL_INDICES
                         ELSE soil_ret.indices
            added == Recognized(requested)
        IN  /\ out.bands = input.bands \o [k \in 1..Len(added) |-> <<added[k]>>]
            /\ \A b \in SeqRange(input.bands) : out.band[b] = input.band[b]
            /\ \A k \in 1..Len(added) :
                   out.band[<<added[k]>>]
                       = index_functions(added[k], input).band[<<added[k]>>]
            /\ soil_ret.unknown = SeqRange(requested) \ IndexNames

C19_MissingIndexComputed ==
    soil_ret.fn = "create_bare_soil_mask" =>
        LET img == soil_ret.image
            ndvi == IF HasBand(img, <<"NDVI">>) THEN img.band[<<"NDVI">>]
                    ELSE calculate_ndvi(img).band[<<"NDVI">>]
            bsi == IF HasBand(img, <<"BSI">>) THEN img.band[<<"BSI">>]
                   ELSE calculate_bsi(img).band[<<"BSI">>]
        IN  /\ ~soil_ret.value.error
            /\ \A p \in Pixels :
                   soil_ret.value.val[p] <=>
                       /\ ndvi.mask[p] /\ bsi.mask[p]
                       /\ RatLess(ndvi.val[p], soil_ret.ndvi_threshold)
                       /\ RatLess(soil_ret.bsi_threshold, bsi.val[p])


\* ------------------------------------------------------------------------
\* get_soil_statistics  (src/soil.py:369-415)
\* ------------------------------------------------------------------------
\* The region of interest is the whole row of pixels.
RECURSIVE RatSum(_, _)
\* sum of the band values over the pixels of S
RatSum(b, S) ==
    IF S = {} THEN <<0, 1>>
    ELSE LET p == CHOOSE q \in S : TRUE
         IN  RatAdd(b.val[p], RatSum(b, S \ {p}))

\* JSON null
Null == NoData

\* reduceRegion with mean, minMax and stdDev combined, on one band: the
\* reducers see the unmasked pixels only, and every output is null when
\* there is none.  stdDev holds the square of the (population) standard
\* deviation, which is rational.
ReduceRegionStats(b) ==
    LET valid == {p \in Pixels : b.mask[p]}
        n == Cardinality(valid)
        squares == [val |-> [p \in Pixels |-> IF b.mask[p] THEN RatMul(b.val[p], b.val[p])
                                              ELSE NoData],
                    mask |-> b.mask]
    IN  IF valid = {}
        THEN [mean |-> Null, min |-> Null, max |-> Null, stdDev |-> Null]
        ELSE LET mean == RatDivide(RatSum(b, valid), <<n, 1>>)
             IN  [mean |-> mean,
                  min |-> b.val[CHOOSE p \in valid :
                                    \A q \in valid : RatLeq(b.val[p], b.val[q])],
                  max |-> b.val[CHOOSE p \in valid :
                                    \A q \in valid : RatLeq(b.val[q], b.val[p])],
                  stdDev |-> RatSub(RatDivide(RatSum(squares, valid), <<n, 1>>),
                                    RatMul(mean, mean))]

\* the index names for which the try block raises: getInfo() fails on the
\* selection of a band the image does not have
StatsFailed(img, indices) ==
    {n \in SeqRange(OrDefaultList(indices, SOIL_INDICES)) : ~HasBand(img, <<n>>)}

get_soil_statistics_stops_at_failure(img, indices) ==
    LET names == OrDefaultList(indices, SOIL_INDICES)
        failing == {i \in 1..Len(names) : ~HasBand(img, <<names[i]>>)}
        done == {i \in 1..Len(names) : \A j \in failing : i < j}
    IN  [n \in {names[i] : i \in done} |-> ReduceRegionStats(Select(img, <<n>>))]

\* the dictionary get_soil_statistics returns: an entry for every name whose
\* try block ran to its end
get_soil_statistics(img, indices) ==
    LET names == OrDefaultList(indices, SOIL_INDICES)
    IN  [n \in SeqRange(names) \ StatsFailed(img, indices) |->
            ReduceRegionStats(Select(img, <<n>>))]

\* pixels of the images statistics are taken of: NDVI 0 and BSI 100; NDVI -1
\* and BSI 200; every denominator 0
BarePixel == [b \in SeqRange(ReflBands) |-> IF b \in {B4, B11, B12} THEN 10000 ELSE 0]
ZeroPixel == [b \in SeqRange(ReflBands) |-> 0]
StatPixels == {ReferencePixel, BarePixel, ZeroPixel}

StatImages ==
    {MakeImage(px, valid) : px \in [Pixels -> StatPixels], valid \in [Pixels -> BOOLEAN]}

StatsListArgs ==
    {NoneList, <<>>, SOIL_INDICES, <<"NDVI", "BSI">>, <<"BSI", "FOO">>, <<"NDSI">>,
     <<"FOO", "BSI", "NDSI">>, <<"BSI", "FOO", "NDSI">>, <<"FOO">>}

Call_get_soil_statistics ==
    \E indices \in StatsListArgs :
        /\ soil_ret.fn \in {"none", "calculate_selected_indices"}
        /\ soil_ret' = [fn |-> "get_soil_statistics",
                        image |-> soil_image,
                        indices |-> indices,
                        failed |-> StatsFailed(soil_image, indices),
                        value |-> get_soil_statistics(soil_image, indices)]
        /\ UNCHANGED soil_image
        /\ UnchangedBeforeSoil

\* ------------------------------------------------------------------------
\* get_histogram_data, get_all_indices_histograms
\* (src/visualization.py:164-260)
\* ------------------------------------------------------------------------
\* num_buckets=50
DefaultNumBuckets == 50

\* index_ranges.get(index_name, (-1, 1))
index_ranges(index_name) ==
    CASE index_name \in {"NDVI", "NDSI", "NDMI", "BI", "CI", "SSI"} ->
             [min |-> <<-1, 1>>, max |-> <<1, 1>>]
      [] index_name = "BSI" -> [min |-> <<0, 1>>, max |-> <<200, 1>>]
      [] index_name = "Brightness" -> [min |-> <<0, 1>>, max |-> <<15000, 1>>]
      [] index_name = "ClayIndex" -> [min |-> <<0, 1>>, max |-> <<3, 1>>]
      [] index_name = "SOM_Index" -> [min |-> <<-2, 1>>, max |-> <<2, 1>>]
      [] OTHER -> [min |-> <<-1, 1>>, max |-> <<1, 1>>]

RECURSIVE RoundUpPow2(_, _)
\* the least power of two that is at least n, searched from the power p
RoundUpPow2(n, p) == IF p >= n THEN p ELSE RoundUpPow2(n, 2 * p)

\* floor(x / w) for a positive width w: the number of the bucket x falls in
BucketOf(x, w) == (x[1] * w[2]) \div (x[2] * w[1])

RECURSIVE BucketWidth(_, _, _, _)
\* ee.Reducer.histogram has no fixed range: the bucket width is the least
\* minBucketWidth * 2^k with which the values lo..hi take at most maxBuckets
\* buckets (maxBuckets rounded up to a power of 2)
BucketWidth(lo, hi, w, maxBuckets) ==
    IF BucketOf(hi, w) - BucketOf(lo, w) + 1 <= maxBuckets THEN w
    ELSE BucketWidth(lo, hi, RatMul(w, <<2, 1>>), maxBuckets)

\* band.reduceRegion(ee.Reducer.histogram(maxBuckets, minBucketWidth), roi)
\* .getInfo()[band_name]: null when the band has no valid pixel in the
\* region, else the buckets from the one of the least value to the one of
\* the greatest value, each with its count of pixels and the mean of its
\* values (its centre when it is empty)
EEHistogram(b, maxBuckets, minBucketWidth) ==
    LET valid == {p \in Pixels : b.mask[p]}
    IN  IF valid = {} THEN [null |-> TRUE]
        ELSE LET lo == b.val[CHOOSE p \in valid :
                                 \A q \in valid : RatLeq(b.val[p], b.val[q])]
                 hi == b.val[CHOOSE p \in valid :
                                 \A q \in valid : RatLeq(b.val[q], b.val[p])]
                 w == BucketWidth(lo, hi, minBucketWidth, RoundUpPow2(maxBuckets, 1))
                 first == BucketOf(lo, w)
                 n == BucketOf(hi, w) - first + 1
                 members == [i \in 1..n |->
                                {p \in valid : BucketOf(b.val[p], w) = first + i - 1}]
             IN  [null |-> FALSE,
                  bucketMin |-> RatMul(<<first, 1>>, w),
                  bucketWidth |-> w,
                  histogram |-> [i \in 1..n |-> Cardinality(members[i])],
                  bucketMeans |->
                      [i \in 1..n |->
                          IF members[i] = {}
                          THEN RatMul(<<2 * (first + i - 1) + 1, 2>>, w)
                          ELSE RatDivide(RatSum(b, members[i]),
                                         <<Cardinality(members[i]), 1>>)]]

\* get_histogram_data: raises when the band is absent (getInfo() fails) and
\* when the reduction is null (hist_data is None and None has no .get)
get_histogram_data(img, band_name, min_val, max_val, num_buckets) ==
    IF ~HasBand(img, <<band_name>>) THEN [raised |-> TRUE]
    ELSE LET histogram == EEHistogram(Select(img, <<band_name>>), num_buckets,
                                      RatDivide(RatSub(max_val, min_val),
                                                <<num_buckets, 1>>))
         IN  IF histogram.null THEN [raised |-> TRUE]
             ELSE [raised |-> FALSE,
                   band |-> band_name,
                   buckets |-> histogram.bucketMeans,
                   counts |-> histogram.histogram,
                   min |-> min_val,
                   max |-> max_val]

\* the index names for which the try block of get_all_indices_histograms raises
HistogramsFailed(img, indices, num_buckets) ==
    {n \in SeqRange(OrDefaultList(indices, SOIL_INDICES)) :
        get_histogram_data(img, n, index_ranges(n).min, index_ranges(n).max,
                           num_buckets).raised}

\* the dictionary get_all_indices_histograms returns
get_all_indices_histograms(img, indices, num_buckets) ==
    LET names == OrDefaultList(indices, SOIL_INDICES)
    IN  [n \in SeqRange(names) \ HistogramsFailed(img, indices, num_buckets) |->
            get_histogram_data(img, n, index_ranges(n).min, index_ranges(n).max,
                               num_buckets)]

\* B4 is a band every image has and no entry of index_ranges: its values lie
\* outside the default range (-1, 1)
HistogramListArgs ==
    StatsListArgs \cup {<<"B4">>, <<"NDVI", "ClayIndex">>, <<"NDSI", "BSI", "FOO">>}

NumBucketsArgs == {DefaultNumBuckets, 4}

Call_get_all_indices_histograms ==
    \E indices \in HistogramListArgs, num_buckets \in NumBucketsArgs :
        /\ soil_ret.fn \in {"none", "calculate_selected_indices"}
        /\ soil_ret' = [fn |-> "get_all_indices_histograms",
                        image |-> soil_image,
                        indices |-> indices,
                        num_buckets |-> num_buckets,
                        failed |-> HistogramsFailed(soil_image, indices, num_buckets),
                        value |-> get_all_indices_histograms(soil_image, indices,
                                                             num_buckets)]
        /\ UNCHANGED soil_image
        /\ UnchangedBeforeSoil


InitStats ==
    /\ qa_image = [QA60 |-> [p \in Pixels |-> 0], mask |-> AllValid]
    /\ qa_ret = NoCall
    /\ s2_collection = <<>>
    /\ cloudless_collection = <<>>
    /\ cloud_ret = NoCall
    /\ collection = <<>>
    /\ comp_ret = NoCall
    /\ soil_image \in StatImages
    /\ soil_ret = NoCall
    /\ hist_data = NoHistData
    /\ pipe = NoPipe
    /\ wait = NoWait

NextStats ==
    \/ Call_calculate_selected_indices
    \/ Call_get_soil_statistics
    \/ Call_get_all_indices_histograms

SpecStats == InitStats /\ [][NextStats]_vars

\* C20: the report of get_soil_statistics has exactly one entry for every
\* requested index name; the entry of a name whose band is absent from the
\* image, or has no valid pixel in the region, has mean, min, max and stdDev
\* all null.
C20_EntryForEveryRequestedIndex ==
    soil_ret.fn = "get_soil_statistics" =>
        LET requested == IF soil_ret.indices = NoneList THEN SOIL_INDICES
                         ELSE soil_ret.indices
            AllNull(e) == e.mean = Null /\ e.min = Null /\ e.max = Null /\ e.stdDev = Null
        IN  /\ DOMAIN soil_ret.value = SeqRange(requested)
            /\ \A n \in SeqRange(requested) :
                   (~HasBand(soil_ret.image, <<n>>)
                       \/ \A p \in Pixels : ~soil_ret.image.band[<<n>>].mask[p])
                       => AllNull(soil_ret.value[n])

\* the requested names, and the requested list without the name f
RequestedOf(ret) == IF ret.indices = NoneList THEN SOIL_INDICES ELSE ret.indices
WithoutName(names, f) == LET Keep(x) == x # f IN SelectSeq(names, Keep)

\* C21: an index whose statistics or histogram cannot be computed (a name
\* such as "FOO" that has no band) has no entry in the output, and every other
\* requested index has the entry it has in a run without the failing index,
\* wherever the failing index stands in the list.
C21_FailureLeavesOthersUnchanged ==
    soil_ret.fn \in {"get_soil_statistics", "get_all_indices_histograms"} =>
        \A f \in soil_ret.failed :
            LET without == WithoutName(RequestedOf(soil_ret), f)
                ref == IF soil_ret.fn = "get_soil_statistics"
                       THEN get_soil_statistics(soil_ret.image, without)
                       ELSE get_all_indices_histograms(soil_ret.image, without,
                                                       soil_ret.num_buckets)
            IN  /\ f \notin DOMAIN soil_ret.value
                /\ \A n \in SeqRange(without) :
                       /\ n \in DOMAIN soil_ret.value <=> n \in DOMAIN ref
                       /\ n \in DOMAIN soil_ret.value => soil_ret.value[n] = ref[n]

\* "FOO" stands first in the list and the two indices after it are reported
C21_Witness ==
    /\ soil_ret.fn = "get_soil_statistics"
    /\ soil_ret.indices = <<"FOO", "BSI", "NDSI">>
    /\ soil_ret.failed = {"FOO"}
    /\ DOMAIN soil_ret.value = {"BSI", "NDSI"}
    /\ soil_ret.value["BSI"].mean # Null

\* C22: for every requested index whose band has N valid pixels in the
\* region, the histogram get_all_indices_histograms returns for it has counts
\* that sum to N, also when values lie outside the configured range, and has
\* as many buckets as counts.
C22_CountsSumToValidPixels ==
    soil_ret.fn = "get_all_indices_histograms" =>
        \A n \in SeqRange(RequestedOf(soil_ret)) :
            HasBand(soil_ret.image, <<n>>) =>
                LET b == Select(soil_ret.image, <<n>>)
                    N == Cardinality({p \in Pixels : b.mask[p]})
                IN  /\ n \in DOMAIN soil_ret.value
                    /\ Len(soil_ret.value[n].buckets) = Len(soil_ret.value[n].counts)
                    /\ SumSeq(soil_ret.value[n].counts) = N

\* C23: a histogram has exactly num_buckets buckets of the width
\* (max - min) / num_buckets, in ascending order, that span the fixed range
\* looked up for the index, whatever the pixel values are.
C23_FixedEqualWidthBuckets ==
    soil_ret.fn = "get_all_indices_histograms" =>
        \A n \in DOMAIN soil_ret.value :
            LET h == soil_ret.value[n]
                range == index_ranges(n)
                width == RatDivide(RatSub(range.max, range.min),
                                   <<soil_ret.num_buckets, 1>>)
                edge(i) == RatAdd(range.min, RatMul(<<i, 1>>, width))
            IN  /\ h.min = range.min /\ h.max = range.max
                /\ Len(h.buckets) = soil_ret.num_buckets
                /\ Len(h.counts) = soil_ret.num_buckets
                /\ \A i \in 1..Len(h.buckets) :
                       RatLeq(edge(i - 1), h.buckets[i]) /\ RatLeq(h.buckets[i], edge(i))


\* ------------------------------------------------------------------------
\* statistics of a histogram dictionary: print_ascii_histogram,
\* generate_histogram_html, save_histogram_json
\* (src/visualization.py:263-318, 380-390, 689-707)
\* ------------------------------------------------------------------------
MaxHistLen == 2
MaxCount == 2

RECURSIVE ZipProductSum(_, _)
\* sum(b * c for b, c in zip(buckets, counts)): zip stops at the shorter list
ZipProductSum(buckets, counts) ==
    IF buckets = <<>> \/ counts = <<>> THEN <<0, 1>>
    ELSE RatAdd(RatMul(Head(buckets), <<Head(counts), 1>>),
                ZipProductSum(Tail(buckets), Tail(counts)))

\* max(counts)
MaxOf(counts) == CHOOSE c \in SeqRange(counts) : \A d \in SeqRange(counts) : d <= c

\* weighted_sum / total_pixels if total_pixels > 0 else 0
MeanOrZero(weighted_sum, total_pixels) ==
    IF total_pixels > 0 THEN RatDivide(weighted_sum, <<total_pixels, 1>>) ELSE <<0, 1>>

\* print_ascii_histogram: what it prints, or that it raised.  The bars are
\* scaled by c / max_count before the statistics are computed.
print_ascii_histogram(hd) ==
    IF hd.buckets = <<>> \/ hd.counts = <<>>
    THEN [raised |-> FALSE, printed |-> "No data available"]
    ELSE IF MaxOf(hd.counts) = 0
    THEN [raised |-> TRUE, printed |-> "ZeroDivisionError"]
    ELSE [raised |-> FALSE, printed |-> "statistics",
          total_pixels |-> SumSeq(hd.counts),
          mean |-> MeanOrZero(ZipProductSum(hd.buckets, hd.counts), SumSeq(hd.counts))]

\* the statistics generate_histogram_html puts under the chart of one index
generate_histogram_html(hd) ==
    IF hd.buckets = <<>> \/ hd.counts = <<>>
    THEN [raised |-> FALSE, printed |-> "No data available"]
    ELSE [raised |-> FALSE, printed |-> "statistics",
          total_pixels |-> SumSeq(hd.counts),
          mean |-> MeanOrZero(ZipProductSum(hd.buckets, hd.counts), SumSeq(hd.counts))]

\* the "statistics" entry save_histogram_json writes for one index
save_histogram_json(hd) ==
    LET total_pixels == IF hd.counts # <<>> THEN SumSeq(hd.counts) ELSE 0
        weighted_sum == IF hd.buckets # <<>> /\ hd.counts # <<>>
                        THEN ZipProductSum(hd.buckets, hd.counts) ELSE <<0, 1>>
    IN  [raised |-> FALSE, printed |-> "statistics",
         total_pixels |-> total_pixels,
         mean |-> MeanOrZero(weighted_sum, total_pixels)]

\* sequences over S of length at most n
SeqsUpTo(S, n) == UNION {[1..k -> S] : k \in 0..n}

BucketValues == {<<-1, 2>>, <<0, 1>>, <<1, 2>>}

HistDataArgs ==
    {[band |-> "NDVI", buckets |-> b, counts |-> c] :
        b \in SeqsUpTo(BucketValues, MaxHistLen), c \in SeqsUpTo(0..MaxCount, MaxHistLen)}

UnchangedByReport ==
    UNCHANGED <<qa_image, qa_ret, s2_collection, cloudless_collection, cloud_ret,
                collection, comp_ret, soil_image, hist_data, pipe, wait>>

Call_print_ascii_histogram ==
    /\ hist_data # NoHistData
    /\ soil_ret = NoCall
    /\ soil_ret' = [fn |-> "print_ascii_histogram",
                    value |-> print_ascii_histogram(hist_data)]
    /\ UnchangedByReport

Call_generate_histogram_html ==
    /\ hist_data # NoHistData
    /\ soil_ret = NoCall
    /\ soil_ret' = [fn |-> "generate_histogram_html",
                    value |-> generate_histogram_html(hist_data)]
    /\ UnchangedByReport

Call_save_histogram_json ==
    /\ hist_data # NoHistData
    /\ soil_ret = NoCall
    /\ soil_ret' = [fn |-> "save_histogram_json",
                    value |-> save_histogram_json(hist_data)]
    /\ UnchangedByReport

InitReport ==
    /\ qa_image = [QA60 |-> [p \in Pixels |-> 0], mask |-> AllValid]
    /\ qa_ret = NoCall
    /\ s2_collection = <<>>
    /\ cloudless_collection = <<>>
    /\ cloud_ret = NoCall
    /\ collection = <<>>
    /\ comp_ret = NoCall
    /\ soil_image = NoImage
    /\ soil_ret = NoCall
    /\ hist_data \in HistDataArgs
    /\ pipe = NoPipe
    /\ wait = NoWait

NextReport ==
    \/ Call_print_ascii_histogram
    \/ Call_generate_histogram_html
    \/ Call_save_histogram_json

SpecReport == InitReport /\ [][NextReport]_vars

\* C24: the reported statistics are computed from the histogram data alone:
\* total_pixels is the sum of the counts and the mean is the sum of
\* bucket * count over total_pixels; when total_pixels is 0 or buckets or
\* counts are empty, nothing is divided, no error is raised and the mean is 0
\* or "no data" is reported.
C24_StatisticsFromHistogramAlone ==
    soil_ret.fn \in {"print_ascii_histogram", "generate_histogram_html",
                    "save_histogram_json"} =>
        LET total == SumSeq(hist_data.counts)
            empty == hist_data.buckets = <<>> \/ hist_data.counts = <<>>
        IN  /\ ~soil_ret.value.raised
            /\ (total = 0 \/ empty) =>
                   \/ soil_ret.value.printed = "No data available"
                   \/ soil_ret.value.mean = <<0, 1>>
            /\ (total > 0 /\ ~empty) =>
                   /\ soil_ret.value.printed = "statistics"
                   /\ soil_ret.value.total_pixels = total
                   /\ soil_ret.value.mean =
                          RatDivide(ZipProductSum(hist_data.buckets, hist_data.counts),
                                    <<total, 1>>)


\* ------------------------------------------------------------------------
\* run_pipeline (src/main.py:95-243), analyze_fun (src/analysis.py:14-127)
\* and analyze_endpoint (src/app.py:165-257)
\* ------------------------------------------------------------------------
\* A value of the pipeline is named by the call that produced it; a call is
\* logged with the values it was given.  An Earth Engine call may raise.

\* config.START_DATE, config.END_DATE
START_DATE == "2025-10-22"
END_DATE == "2026-01-22"

\* Python's `x or default` for a string: None and "" are falsy
OrDefaultStr(x, default) == IF x = NoneStr \/ x = "" THEN default ELSE x

StageOrder_composite_before_masking ==
    <<"roi", "retrieval", "compositing", "masking", "indices", "bare_soil",
      "statistics", "histograms", "thumbnails", "return">>

\* the stages in the order the code runs them; "roi" is analyze_fun's alone
StageOrder ==
    <<"roi", "retrieval", "masking", "compositing", "indices", "bare_soil",
      "statistics", "histograms", "thumbnails", "return">>

\* run_pipeline's `if calculate_stats:` and `if generate_histograms:`
RunsStage(p, stage) ==
    \/ p.entry = "analyze_endpoint"
    \/ stage \notin {"roi", "statistics", "histograms", "thumbnails"}
    \/ stage = "statistics" /\ p.calculate_stats
    \/ stage \in {"histograms", "thumbnails"} /\ p.generate_histograms

StageAfter(p, stage) ==
    LET here == CHOOSE i \in 1..Len(StageOrder) : StageOrder[i] = stage
        later == {i \in (here + 1)..Len(StageOrder) : RunsStage(p, StageOrder[i])}
    IN  StageOrder[CHOOSE i \in later : \A j \in later : i <= j]

NoException == [type |-> "none", stage |-> "none", cause |-> "none"]

\* what leaves analyze_fun when the stage raised exception e.  The handler of
\* the retrieval stage raises AnalysisError with a fixed message; every other
\* handler evaluates "..." + e, which raises TypeError (str + Exception).
analysis_handler(stage, e) ==
    IF stage = "retrieval"
    THEN [type |-> "AnalysisError", stage |-> "retrieval", cause |-> "none"]
    ELSE [type |-> "TypeError", stage |-> "none", cause |-> "none"]

\* analyze_endpoint's answer to what analyze_fun returned or raised
analyze_endpoint_status(raised) ==
    IF raised.type = "none" THEN 200
    ELSE IF raised.type = "AnalysisError" THEN 422
    ELSE 500

\* validate_analyze_request(data): the body of the function is `pass`
validate_analyze_request(data) == NoneList

\* if s2_count == 0
NoScenes_never(s2_count) == FALSE

NoScenes(s2_count) == s2_count = 0

\* values of collection.size().getInfo()
SceneCounts == {0, 1, 3}

RequiredFields == {"lat", "lon", "buffer", "start_date", "end_date"}

NoLocals ==
    [roi |-> "unset", s2_collection |-> "unset", s2_cloudless |-> "unset",
     masked_collection |-> "unset", composite |-> "unset",
     composite_with_indices |-> "unset"]

\* a logged call
Called(fn, roi, args, start, end, out) ==
    [fn |-> fn, roi |-> roi, args |-> args, start |-> start, end |-> end, out |-> out]

\* the stage of p raised exception e
Raised(p, stage, e) ==
    IF p.entry = "run_pipeline"
    THEN [p EXCEPT !.pc = "done",
                   !.raised = [type |-> e, stage |-> stage, cause |-> e]]
    ELSE LET out == analysis_handler(stage, e)
         IN  [p EXCEPT !.pc = "done", !.raised = out,
                       !.status = analyze_endpoint_status(out),
                       !.error = IF out.type = "AnalysisError" THEN "Analysis failed"
                                 ELSE "Internal server error"]

UnchangedByPipeline ==
    UNCHANGED <<qa_image, qa_ret, s2_collection, cloudless_collection, cloud_ret,
                collection, comp_ret, soil_image, soil_ret, hist_data, wait>>

\* data = request.get_json()
Endpoint_get_json ==
    /\ pipe.entry = "analyze_endpoint" /\ pipe.pc = "get_json"
    /\ pipe' = IF pipe.body.json_ok THEN [pipe EXCEPT !.pc = "validate"]
               ELSE [pipe EXCEPT !.pc = "done", !.status = 400,
                                 !.error = "Invalid JSON in request body"]
    /\ UnchangedByPipeline

\* validation_errors = validate_analyze_request(data); if validation_errors:
Endpoint_validate ==
    /\ pipe.entry = "analyze_endpoint" /\ pipe.pc = "validate"
    /\ LET validation_errors == validate_analyze_request(pipe.body)
       IN  pipe' = IF validation_errors \notin {NoneList, <<>>}
                   THEN [pipe EXCEPT !.pc = "done", !.status = 400,
                                     !.error = "Validation failed"]
                   ELSE [pipe EXCEPT !.pc = "check_gee"]
    /\ UnchangedByPipeline

\* if not gee_connected:
Endpoint_check_gee ==
    /\ pipe.entry = "analyze_endpoint" /\ pipe.pc = "check_gee"
    /\ pipe' = IF ~pipe.gee_connected
               THEN [pipe EXCEPT !.pc = "done", !.status = 503,
                                 !.error = "Google Earth Engine is not connected"]
               ELSE [pipe EXCEPT !.pc = "extract"]
    /\ UnchangedByPipeline

\* lat = data["lat"] ... end_date = data["end_date"], outside any try: a
\* missing key raises KeyError, which Flask answers with 500; otherwise
\* analyze_fun is called
Endpoint_extract ==
    /\ pipe.entry = "analyze_endpoint" /\ pipe.pc = "extract"
    /\ pipe' = IF pipe.body.missing \in RequiredFields
               THEN [pipe EXCEPT !.pc = "done", !.status = 500,
                                 !.error = "Internal server error",
                                 !.raised = [type |-> "KeyError", stage |-> "none",
                                             cause |-> pipe.body.missing]]
               ELSE [pipe EXCEPT !.pc = "roi", !.analyze_called = TRUE]
    /\ UnchangedByPipeline

\* point = ee.Geometry.Point([lon, lat]); roi = point.buffer(buffer): the
\* client library rejects coordinates that are not numbers
Stage_roi ==
    /\ pipe.entry = "analyze_endpoint" /\ pipe.pc = "roi"
    /\ pipe' = IF pipe.body.lat_kind = "not_a_number"
               THEN Raised([pipe EXCEPT !.calls =
                                Append(@, Called("point.buffer", "none", <<>>, NoneStr,
                                                 NoneStr, "raised"))],
                           "roi", "EEException")
               ELSE [pipe EXCEPT !.pc = StageAfter(pipe, "roi"),
                                 !.locals.roi = "point.buffer",
                                 !.calls = Append(@, Called("point.buffer", "none", <<>>,
                                                            NoneStr, NoneStr,
                                                            "point.buffer"))]
    /\ UnchangedByPipeline

\* get_sentinel2_collection(roi, start_date, end_date), the test of s2_count
\* and get_s2_cloudless_collection(roi)
Stage_retrieval ==
    /\ pipe.entry # "none" /\ pipe.pc = "retrieval"
    /\ \E s2_count \in SceneCounts, fails \in {"none", "s2", "cloudless"} :
        LET start_date == IF pipe.entry = "run_pipeline" THEN NoneStr
                          ELSE pipe.body.start_date
            end_date == IF pipe.entry = "run_pipeline" THEN NoneStr
                        ELSE pipe.body.end_date
            s2(out) == Called("get_sentinel2_collection", pipe.locals.roi, <<>>,
                              OrDefaultStr(start_date, START_DATE),
                              OrDefaultStr(end_date, END_DATE), out)
            cloudless(out) == Called("get_s2_cloudless_collection", pipe.locals.roi, <<>>,
                                     OrDefaultStr(NoneStr, START_DATE),
                                     OrDefaultStr(NoneStr, END_DATE), out)
            counted == [pipe EXCEPT !.s2_count = s2_count,
                                    !.locals.s2_collection = "get_sentinel2_collection",
                                    !.calls = Append(@, s2("get_sentinel2_collection"))]
        IN  pipe' =
                IF fails = "s2"
                THEN Raised([pipe EXCEPT !.calls = Append(@, s2("raised"))],
                            "retrieval", "EEException")
                ELSE IF NoScenes(s2_count)
                THEN IF pipe.entry = "run_pipeline"
                     THEN [counted EXCEPT !.pc = "done", !.result = "None"]
                     ELSE [counted EXCEPT
                              !.pc = "done",
                              !.raised = [type |-> "AnalysisError", stage |-> "retrieval",
                                          cause |-> "no scenes"],
                              !.status = 422, !.error = "Analysis failed"]
                ELSE IF fails = "cloudless"
                THEN Raised([counted EXCEPT !.calls = Append(@, cloudless("raised"))],
                            "retrieval", "EEException")
                ELSE [counted EXCEPT
                         !.pc = StageAfter(pipe, "retrieval"),
                         !.locals.s2_cloudless = "get_s2_cloudless_collection",
                         !.calls = Append(@, cloudless("get_s2_cloudless_collection"))]
    /\ UnchangedByPipeline

\* masked_collection = apply_comprehensive_cloud_mask(s2_collection, s2_cloudless, ...)
Stage_masking ==
    /\ pipe.entry # "none" /\ pipe.pc = "masking"
    /\ \E ok \in BOOLEAN :
        LET args == <<pipe.locals.s2_collection, pipe.locals.s2_cloudless>>
            fn == "apply_comprehensive_cloud_mask"
        IN  pipe' =
                IF ~ok
                THEN Raised([pipe EXCEPT !.calls =
                                 Append(@, Called(fn, "none", args, NoneStr, NoneStr, "raised"))],
                            "masking", "EEException")
                ELSE [pipe EXCEPT
                         !.pc = StageAfter(pipe, "masking"),
                         !.locals.masked_collection = fn,
                         !.calls = Append(@, Called(fn, "none", args, NoneStr, NoneStr, fn))]
    /\ UnchangedByPipeline

\* composite = create_composite(masked_collection, method=config.COMPOSITE_METHOD)
Stage_compositing ==
    /\ pipe.entry # "none" /\ pipe.pc = "compositing"
    /\ \E ok \in BOOLEAN :
        LET args == <<pipe.locals.masked_collection>>
            fn == "create_composite"
        IN  pipe' =
                IF ~ok
                THEN Raised([pipe EXCEPT !.calls =
                                 Append(@, Called(fn, "none", args, NoneStr, NoneStr, "raised"))],
                            "compositing", "EEException")
                ELSE [pipe EXCEPT
                         !.pc = StageAfter(pipe, "compositing"),
                         !.locals.composite = fn,
                         !.calls = Append(@, Called(fn, "none", args, NoneStr, NoneStr, fn))]
    /\ UnchangedByPipeline

\* composite = composite.clip(roi);
\* composite_with_indices = calculate_selected_indices(composite, ...)
Stage_indices ==
    /\ pipe.entry # "none" /\ pipe.pc = "indices"
    /\ \E ok \in BOOLEAN :
        LET clip == Called("clip", pipe.locals.roi, <<pipe.locals.composite>>,
                           NoneStr, NoneStr, "clip")
            fn == "calculate_selected_indices"
            clipped == [pipe EXCEPT !.locals.composite = "clip",
                                    !.calls = Append(@, clip)]
            args == <<clipped.locals.composite>>
        IN  pipe' =
                IF ~ok
                THEN Raised([clipped EXCEPT !.calls =
                                 Append(@, Called(fn, "none", args, NoneStr, NoneStr, "raised"))],
                            "indices", "EEException")
                ELSE [clipped EXCEPT
                         !.pc = StageAfter(pipe, "indices"),
                         !.locals.composite_with_indices = fn,
                         !.calls = Append(@, Called(fn, "none", args, NoneStr, NoneStr, fn))]
    /\ UnchangedByPipeline

\* bare_soil_mask = create_bare_soil_mask(composite_with_indices)
Stage_bare_soil ==
    /\ pipe.entry # "none" /\ pipe.pc = "bare_soil"
    /\ \E ok \in BOOLEAN :
        LET args == <<pipe.locals.composite_with_indices>>
            fn == "create_bare_soil_mask"
        IN  pipe' =
                IF ~ok
                THEN Raised([pipe EXCEPT !.calls =
                                 Append(@, Called(fn, "none", args, NoneStr, NoneStr, "raised"))],
                            "bare_soil", "EEException")
                ELSE [pipe EXCEPT
                         !.pc = StageAfter(pipe, "bare_soil"),
                         !.calls = Append(@, Called(fn, "none", args, NoneStr, NoneStr, fn))]
    /\ UnchangedByPipeline

\* stats = get_soil_statistics(composite_with_indices, roi, ...): failures
\* are caught inside, index by index
Stage_statistics ==
    /\ pipe.entry # "none" /\ pipe.pc = "statistics"
    /\ pipe' = [pipe EXCEPT
                   !.pc = StageAfter(pipe, "statistics"),
                   !.calls = Append(@, Called("get_soil_statistics", pipe.locals.roi,
                                              <<pipe.locals.composite_with_indices>>,
                                              NoneStr, NoneStr, "get_soil_statistics"))]
    /\ UnchangedByPipeline

\* histograms = get_all_indices_histograms(composite_with_indices, roi, ...)
Stage_histograms ==
    /\ pipe.entry # "none" /\ pipe.pc = "histograms"
    /\ pipe' = [pipe EXCEPT
                   !.pc = StageAfter(pipe, "histograms"),
                   !.calls = Append(@, Called("get_all_indices_histograms", pipe.locals.roi,
                                              <<pipe.locals.composite_with_indices>>,
                                              NoneStr, NoneStr,
                                              "get_all_indices_histograms"))]
    /\ UnchangedByPipeline

\* image_urls = get_all_visualization_urls(composite, roi, dimensions=600)
Stage_thumbnails ==
    /\ pipe.entry # "none" /\ pipe.pc = "thumbnails"
    /\ pipe' = [pipe EXCEPT
                   !.pc = StageAfter(pipe, "thumbnails"),
                   !.calls = Append(@, Called("get_all_visualization_urls", pipe.locals.roi,
                                              <<pipe.locals.composite>>,
                                              NoneStr, NoneStr,
                                              "get_all_visualization_urls"))]
    /\ UnchangedByPipeline

\* return results; analyze_endpoint answers 200 with them
Stage_return ==
    /\ pipe.entry # "none" /\ pipe.pc = "return"
    /\ pipe' = [pipe EXCEPT
                   !.pc = "done", !.result = "results",
                   !.status = IF pipe.entry = "analyze_endpoint"
                              THEN analyze_endpoint_status(NoException) ELSE 0]
    /\ UnchangedByPipeline

RequestBodies ==
    [json_ok : BOOLEAN,
     missing : RequiredFields \cup {"none"},
     lat_kind : {"valid", "out_of_range", "not_a_number"},
     start_date : {"2024-01-01", START_DATE},
     end_date : {"2024-03-01", END_DATE}]

PipeStart(entry, pc) ==
    [entry |-> entry, pc |-> pc, calculate_stats |-> TRUE, generate_histograms |-> TRUE,
     body |-> [json_ok |-> TRUE, missing |-> "none", lat_kind |-> "valid",
               start_date |-> NoneStr, end_date |-> NoneStr],
     gee_connected |-> TRUE, analyze_called |-> FALSE, locals |-> NoLocals,
     s2_count |-> NoneInt, calls |-> <<>>, raised |-> NoException, status |-> 0,
     error |-> "none", result |-> "none"]

InitPipeline ==
    /\ qa_image = [QA60 |-> [p \in Pixels |-> 0], mask |-> AllValid]
    /\ qa_ret = NoCall
    /\ s2_collection = <<>>
    /\ cloudless_collection = <<>>
    /\ cloud_ret = NoCall
    /\ collection = <<>>
    /\ comp_ret = NoCall
    /\ soil_image = NoImage
    /\ soil_ret = NoCall
    /\ hist_data = NoHistData
    /\ wait = NoWait
    /\ \/ \E calculate_stats \in BOOLEAN, generate_histograms \in BOOLEAN :
            pipe = [PipeStart("run_pipeline", "retrieval") EXCEPT
                       !.calculate_stats = calculate_stats,
                       !.generate_histograms = generate_histograms,
                       !.locals.roi = "roi"]
       \/ \E body \in RequestBodies, gee_connected \in BOOLEAN :
            pipe = [PipeStart("analyze_endpoint", "get_json") EXCEPT
                       !.body = body, !.gee_connected = gee_connected]

NextPipeline ==
    \/ Endpoint_get_json
    \/ Endpoint_validate
    \/ Endpoint_check_gee
    \/ Endpoint_extract
    \/ Stage_roi
    \/ Stage_retrieval
    \/ Stage_masking
    \/ Stage_compositing
    \/ Stage_indices
    \/ Stage_bare_soil
    \/ Stage_statistics
    \/ Stage_histograms
    \/ Stage_thumbnails
    \/ Stage_return

SpecPipeline == InitPipeline /\ [][NextPipeline]_vars

\* C25: when retrieval finds no scene, run_pipeline and analyze_fun stop right
\* after it: cloud masking, compositing, index calculation, statistics and
\* histograms are never invoked, run_pipeline returns None and analyze_fun
\* raises AnalysisError.
C25_NoScenesStopsAfterRetrieval ==
    (pipe.entry # "none" /\ pipe.s2_count = 0) =>
        /\ pipe.pc = "done"
        /\ pipe.calls[Len(pipe.calls)].fn = "get_sentinel2_collection"
        /\ \A i \in 1..Len(pipe.calls) :
               pipe.calls[i].fn \in {"point.buffer", "get_sentinel2_collection"}
        /\ pipe.entry = "run_pipeline" =>
               pipe.result = "None" /\ pipe.raised = NoException
        /\ pipe.entry = "analyze_endpoint" =>
               pipe.result = "none" /\ pipe.raised.type = "AnalysisError"

\* analyze_fun found no scene and the request was answered 422
C25_Witness ==
    /\ pipe.entry = "analyze_endpoint"
    /\ pipe.s2_count = 0
    /\ Len(pipe.calls) = 2
    /\ pipe.raised.type = "AnalysisError"
    /\ pipe.status = 422

\* C26: a call of analyze_fun either returns the complete result set or raises
\* one AnalysisError whose message names the stage that failed and the cause;
\* no other exception type leaves it, so analyze_endpoint answers 200 or 422,
\* never 500.
C26_CompleteResultOrOneAnalysisError ==
    (pipe.entry = "analyze_endpoint" /\ pipe.analyze_called /\ pipe.pc = "done") =>
        \/ pipe.result = "results" /\ pipe.raised = NoException /\ pipe.status = 200
        \/ /\ pipe.result = "none"
           /\ pipe.raised.type = "AnalysisError"
           /\ pipe.raised.stage # "none"
           /\ pipe.raised.cause # "none"
           /\ pipe.status = 422

\* C27: every imagery query of one analyze_fun call, of the Sentinel-2
\* collection and of the cloud-probability collection, is filtered by the
\* region and by the start and end dates of that call.
C27_QueriesUseOwnRoiAndDates ==
    pipe.entry = "analyze_endpoint" =>
        \A i \in 1..Len(pipe.calls) :
            pipe.calls[i].fn \in {"get_sentinel2_collection",
                                  "get_s2_cloudless_collection"} =>
                /\ pipe.calls[i].roi = "point.buffer"
                /\ pipe.calls[i].start = pipe.body.start_date
                /\ pipe.calls[i].end = pipe.body.end_date

\* C28: the stages are invoked in the order retrieval, cloud masking,
\* compositing and clip, index calculation, then statistics and histograms;
\* a stage starts after the previous one returned, receives what the
\* previous stage produced, and every stage works on the same region.
C28_StagesInFixedOrder ==
    pipe.entry # "none" =>
        LET order == <<"point.buffer", "get_sentinel2_collection",
                       "get_s2_cloudless_collection", "apply_comprehensive_cloud_mask",
                       "create_composite", "clip", "calculate_selected_indices",
                       "create_bare_soil_mask", "get_soil_statistics",
                       "get_all_indices_histograms", "get_all_visualization_urls">>
            pos(fn) == CHOOSE i \in 1..Len(order) : order[i] = fn
            given(fn) ==
                CASE fn = "apply_comprehensive_cloud_mask" ->
                         <<"get_sentinel2_collection", "get_s2_cloudless_collection">>
                  [] fn = "create_composite" -> <<"apply_comprehensive_cloud_mask">>
                  [] fn = "clip" -> <<"create_composite">>
                  [] fn = "calculate_selected_indices" -> <<"clip">>
                  [] fn \in {"create_bare_soil_mask", "get_soil_statistics",
                             "get_all_indices_histograms"} ->
                         <<"calculate_selected_indices">>
                  [] fn = "get_all_visualization_urls" -> <<"clip">>
                  [] OTHER -> <<>>
            calls == pipe.calls
        IN  /\ \A i \in 1..Len(calls) :
                   /\ calls[i].fn \in SeqRange(order)
                   /\ calls[i].args = given(calls[i].fn)
                   /\ calls[i].roi # "none" =>
                          calls[i].roi = pipe.locals.roi /\ calls[i].roi # "unset"
                   /\ i < Len(calls) => calls[i].out # "raised"
            /\ Len(calls) > 0 =>
                   calls[1].fn = IF pipe.entry = "run_pipeline"
                                 THEN "get_sentinel2_collection" ELSE "point.buffer"
            /\ \A i \in 2..Len(calls) :
                   /\ pos(calls[i - 1].fn) < pos(calls[i].fn)
                   /\ pos(calls[i].fn) <= 8 => pos(calls[i].fn) = pos(calls[i - 1].fn) + 1

\* a run of run_pipeline with statistics and histograms went through every stage
C28_Witness ==
    /\ pipe.entry = "run_pipeline"
    /\ pipe.calculate_stats /\ pipe.generate_histograms
    /\ pipe.pc = "done"
    /\ pipe.result = "results"
    /\ Len(pipe.calls) = 10
    /\ pipe.calls[10].fn = "get_all_visualization_urls"

\* C29: a body that lacks lat, lon, buffer, start_date or end_date, or holds
\* an out-of-range value, is answered 400 'Validation failed' without a call
\* of analyze_fun, whether or not Earth Engine is connected; a valid body
\* without connection is answered 503 without a call of analyze_fun.
C29_InvalidBodyAnswered400 ==
    (pipe.entry = "analyze_endpoint" /\ pipe.body.json_ok /\ pipe.pc = "done") =>
        LET invalid == \/ pipe.body.missing \in RequiredFields
                       \/ pipe.body.lat_kind = "out_of_range"
        IN  /\ invalid =>
                   /\ pipe.status = 400
                   /\ pipe.error = "Validation failed"
                   /\ ~pipe.analyze_called
            /\ (~invalid /\ ~pipe.gee_connected) =>
                   pipe.status = 503 /\ ~pipe.analyze_called


\* ------------------------------------------------------------------------
\* wait_for_all_tasks  (src/export.py:360-419)
\* ------------------------------------------------------------------------
\* Time is counted in poll intervals since start_time.
TimeoutTicks == 2

TaskNames == {"rgb", "indices"}
TaskStates == {"READY", "RUNNING", "COMPLETED", "FAILED", "CANCELLED"}
TerminalStates == {"COMPLETED", "FAILED", "CANCELLED"}

\* results[name] = value
SetItem(results, name, value) ==
    [n \in DOMAIN results \cup {name} |-> IF n = name THEN value ELSE results[n]]

record_timeout_drops_pending(results, pending) == results

\* for name in pending: results[name] = False
record_timeout(results, pending) ==
    [n \in DOMAIN results \cup pending |-> IF n \in pending THEN FALSE ELSE results[n]]

\* time.time() moves on by dt, within the horizon of the model
Later(now, dt) == IF now + dt > TimeoutTicks + 1 THEN TimeoutTicks + 1 ELSE now + dt

UnchangedByWait ==
    UNCHANGED <<qa_image, qa_ret, s2_collection, cloudless_collection, cloud_ret,
                collection, comp_ret, soil_image, soil_ret, hist_data, pipe>>

\* the export service moves a task on
Task_progress ==
    /\ wait.pc \in {"loop", "poll"}
    /\ \E name \in wait.keys, state \in TaskStates :
        /\ \/ wait.state[name] = "READY" /\ state \in {"RUNNING", "CANCELLED"}
           \/ wait.state[name] = "RUNNING" /\ state \in TerminalStates
        /\ wait' = [wait EXCEPT !.state[name] = state]
    /\ UnchangedByWait

\* while pending: elapsed = time.time() - start_time;
\* if elapsed > timeout_seconds: ... break
Wait_loop ==
    /\ wait.pc = "loop"
    /\ wait' =
        IF wait.pending = {} THEN [wait EXCEPT !.pc = "returned"]
        ELSE IF wait.now > TimeoutTicks
        THEN [wait EXCEPT !.pc = "returned",
                          !.timed_out = TRUE,
                          !.results = record_timeout(wait.results, wait.pending),
                          !.first = record_timeout(wait.first,
                                                   wait.pending \ DOMAIN wait.first)]
        ELSE [wait EXCEPT !.pc = "poll", !.todo = wait.pending]
    /\ UnchangedByWait

\* one turn of `for name in list(pending)`: status = tasks[name].status()
Wait_poll ==
    /\ wait.pc = "poll"
    /\ \E name \in wait.todo, dt \in {0, 1} :
        LET state == wait.state[name]
            polled == [wait EXCEPT !.todo = @ \ {name},
                                   !.now = Later(@, dt),
                                   !.seen[name] = state,
                                   !.repolled = @ \cup ({name} \cap DOMAIN wait.results)]
            recorded(value) ==
                [polled EXCEPT !.results = SetItem(wait.results, name, value),
                               !.pending = @ \ {name},
                               !.first = IF name \in DOMAIN wait.first THEN wait.first
                                         ELSE SetItem(wait.first, name, value)]
        IN  wait' = IF state = "COMPLETED" THEN recorded(TRUE)
                    ELSE IF state \in {"FAILED", "CANCELLED"} THEN recorded(FALSE)
                    ELSE polled
    /\ UnchangedByWait

\* if pending: time.sleep(poll_interval)
Wait_sleep ==
    /\ wait.pc = "poll" /\ wait.todo = {}
    /\ wait' = [wait EXCEPT !.pc = "loop",
                            !.now = IF wait.pending # {} THEN Later(@, 1) ELSE @]
    /\ UnchangedByWait

InitWait ==
    /\ qa_image = [QA60 |-> [p \in Pixels |-> 0], mask |-> AllValid]
    /\ qa_ret = NoCall
    /\ s2_collection = <<>>
    /\ cloudless_collection = <<>>
    /\ cloud_ret = NoCall
    /\ collection = <<>>
    /\ comp_ret = NoCall
    /\ soil_image = NoImage
    /\ soil_ret = NoCall
    /\ hist_data = NoHistData
    /\ pipe = NoPipe
    /\ \E keys \in SUBSET TaskNames :
        \E state \in [keys -> TaskStates] :
            wait = [pc |-> "loop", keys |-> keys, state |-> state,
                    pending |-> keys, todo |-> {}, results |-> << >>, now |-> 0,
                    timed_out |-> FALSE, seen |-> [n \in keys |-> "none"],
                    first |-> << >>, repolled |-> {}]

NextWait ==
    \/ Task_progress
    \/ Wait_loop
    \/ Wait_poll
    \/ Wait_sleep

\* the loop keeps running: nothing in it blocks but the sleep, which ends
SpecWait ==
    /\ InitWait /\ [][NextWait]_vars
    /\ WF_vars(Wait_loop) /\ WF_vars(Wait_poll) /\ WF_vars(Wait_sleep)

\* what must hold of the results of wait_for_all_tasks at every moment
WaitResultsRight ==
    wait.pc # "none" =>
        /\ \A n \in DOMAIN wait.results :
               /\ n \notin wait.repolled
               /\ n \notin wait.todo
               /\ wait.results[n] = wait.first[n]
               /\ wait.results[n] <=> wait.seen[n] = "COMPLETED"
        /\ wait.pc = "returned" =>
               /\ DOMAIN wait.results = wait.keys
               /\ wait.timed_out \/ \A n \in wait.keys : wait.seen[n] \in TerminalStates
               /\ \A n \in wait.keys :
                      ~wait.results[n] =>
                          \/ wait.seen[n] \in {"FAILED", "CANCELLED"}
                          \/ wait.timed_out /\ wait.seen[n] \notin TerminalStates

\* C30: wait_for_all_tasks returns, once every task was seen in a terminal
\* state or the timeout has elapsed, a mapping with exactly the keys of tasks
\* whose value is True exactly for the tasks seen COMPLETED before the timeout
\* was detected; a task whose result is recorded is not polled again and its
\* result does not change.
C30_WaitReturnsResultForEveryTask ==
    []WaitResultsRight /\ <>(wait.pc \in {"none", "returned"})

\* two tasks: one was seen COMPLETED, the other was still running when the
\* timeout was detected
C30_Witness ==
    /\ wait.pc = "returned"
    /\ wait.keys = TaskNames
    /\ wait.timed_out
    /\ wait.results["rgb"] /\ ~wait.results["indices"]
    /\ wait.seen["indices"] = "RUNNING"

====
